---------------------------- MODULE Spec2Model ----------------------------
(***************************************************************************)
(* Workflow engine: validation of a task list, wave-based dispatch of the  *)
(* ready tasks, per-task retry loop with timeout race, aggregation of the  *)
(* task results into the WorkflowResult.                                   *)
(*                                                                         *)
(* Error messages are sequences of words; "contains" is the contiguous     *)
(* sub-sequence relation on words and lower-casing acts word by word.      *)
(***************************************************************************)
EXTENDS Integers, Naturals, Sequences, FiniteSets, TLC

VARIABLES
  workflow,     \* the TaskDefinition[] handed to run
  pc,           \* position of run: "init", "executing", "returned"
  verdict,      \* outcome of validateWorkflow: <<>> before, <<[ok, error]>> after
  completed,    \* TaskStateTracker.completed
  inProgress,   \* TaskStateTracker.inProgress
  wave,         \* readyTasks of the loop iteration awaited by Promise.all
  waveNo,       \* number of waves dispatched so far
  startedAt,    \* per task: number of the wave that dispatched it (0: never)
  results,      \* the result map of run: task id -> TaskResult
  errors,       \* the error list of run
  tpc,          \* per task: "idle", "running", "delay", "rejected", "done"
  retryCount,   \* per task: retryCount of executeWithRetry
  lastError,    \* per task: lastError of executeWithRetry
  attempts,     \* per task: success flags of the recorded RetryAttempts
  invoked,      \* per task: number of calls of task.handler
  sleep,        \* per task: the backoff delay being waited for (ms)
  events,       \* per task: the task events emitted, in order
  wfEvents,     \* the workflow events emitted, in order
  ret,          \* the WorkflowResult returned by run (read when pc = "returned")
  dispatches,   \* per task: number of times executeTask was called for it
  writes,       \* per task: number of results.set calls for it
  abandoned,    \* per task: handler calls that lost the race and are pending
  syncCalls,    \* what the last readyTasks.map(...) called, in the order it did
  parked,       \* the state of the other call of run, when there is one
  call,         \* the arguments of the calls of a function made by itself
  out           \* what those calls returned: <<>> before, <<value>> after

vars == << workflow, pc, verdict, completed, inProgress, wave, waveNo,
           startedAt, results, errors, tpc, retryCount, lastError, attempts,
           invoked, sleep, events, wfEvents, ret, dispatches, writes,
           abandoned, syncCalls, parked, call, out >>

-----------------------------------------------------------------------------
(* Bounds *)

MaxRetries == 1      \* largest retries value of a task of an executed list
MaxDeps == 1         \* longest dependency list of the validator's inputs
MaxCount == 3        \* largest retry number handed to calculateRetryDelay
MaxCalls == 3        \* most calls of validateWorkflow on the one validator

Ids == {"a", "b", "c"}
Ghost == "z"          \* an id no task of the lists carries

-----------------------------------------------------------------------------
(* Words and messages *)

LowerWord(w) ==
  CASE w = "Network" -> "network"
    [] w = "Task" -> "task"
    [] w = "Duplicate" -> "duplicate"
    [] w = "Circular" -> "circular"
    [] w = "IDs" -> "ids"
    [] w = "TIMEOUT" -> "timeout"
    [] w = "ERROR" -> "error"
    [] w = "Error" -> "error"
    [] w = "Custom" -> "custom"
    [] OTHER -> w

toLowerCase(msg) == [i \in 1..Len(msg) |-> LowerWord(msg[i])]

includes(msg, pat) ==
  \E i \in 1..(Len(msg) - Len(pat) + 1) : SubSeq(msg, i, i + Len(pat) - 1) = pat

Err(msg) == [message |-> msg]
NoError == Err(<<>>)

DUPLICATE_TASK_IDS == <<"Duplicate", "task", "IDs", "found", "in", "workflow">>
NON_EXISTENT_DEPENDENCY(taskId, depId) ==
  <<"Task", taskId, "depends", "on", "non-existent", "task", depId>>
CIRCULAR_DEPENDENCY(taskId) ==
  <<"Circular", "dependency", "detected", "involving", "task", taskId>>
DEADLOCK_DETECTED(remaining) == <<"Deadlock", "detected">> \o remaining

DEFAULT_RETRYABLE_ERRORS ==
  << <<"timeout">>, <<"timed", "out">>, <<"network">>, <<"connection">>,
     <<"temporary">>, <<"rate", "limit">>, <<"server", "error">> >>

Range(s) == {s[i] : i \in 1..Len(s)}

-----------------------------------------------------------------------------
(* WorkflowValidatorService *)

TaskIdsOf(wf) == {wf[i].id : i \in 1..Len(wf)}

\* workflow.find((t) => t.id === taskId): the first task with that id, as a
\* list of at most one task
FindTask(wf, taskId) ==
  IF \E i \in 1..Len(wf) : wf[i].id = taskId
  THEN << wf[CHOOSE i \in 1..Len(wf) :
               wf[i].id = taskId /\ \A j \in 1..(i - 1) : wf[j].id # taskId] >>
  ELSE <<>>

validateTaskIds(wf) ==
  IF Cardinality(TaskIdsOf(wf)) # Len(wf)
  THEN [ok |-> FALSE, error |-> Err(DUPLICATE_TASK_IDS)]
  ELSE [ok |-> TRUE, error |-> NoError]

\* first (task, dependency) pair, in list order, whose dependency is no task id
validateDependencies(wf) ==
  LET pairs == UNION {{<<i, k>> : k \in 1..Len(wf[i].dependencies)} :
                        i \in 1..Len(wf)}
      bad == {p \in pairs : wf[p[1]].dependencies[p[2]] \notin TaskIdsOf(wf)}
      before(p, q) == p[1] < q[1] \/ (p[1] = q[1] /\ p[2] <= q[2])
  IN IF bad = {} THEN [ok |-> TRUE, error |-> NoError]
     ELSE LET p == CHOOSE x \in bad : \A y \in bad : before(x, y)
          IN [ok |-> FALSE,
              error |-> Err(NON_EXISTENT_DEPENDENCY(wf[p[1]].id,
                                   wf[p[1]].dependencies[p[2]]))]

RECURSIVE hasCircularDependency(_, _, _, _)
RECURSIVE hasCircularDeps(_, _, _, _, _)

\* the for loop over task.dependencies of hasCircularDependency, from index k
hasCircularDeps(deps, k, wf, visited, recursionStack) ==
  IF k > Len(deps)
  THEN [found |-> FALSE, visited |-> visited, recursionStack |-> recursionStack]
  ELSE IF deps[k] \notin visited
       THEN LET r == hasCircularDependency(deps[k], wf, visited, recursionStack)
            IN IF r.found THEN r
               ELSE hasCircularDeps(deps, k + 1, wf, r.visited, r.recursionStack)
       ELSE IF deps[k] \in recursionStack
            THEN [found |-> TRUE, visited |-> visited,
                  recursionStack |-> recursionStack]
            ELSE hasCircularDeps(deps, k + 1, wf, visited, recursionStack)

hasCircularDependency(taskId, wf, visited, recursionStack) ==
  LET task == FindTask(wf, taskId)
      deps == IF task = <<>> THEN <<>> ELSE task[1].dependencies
      r == hasCircularDeps(deps, 1, wf, visited \cup {taskId},
                           recursionStack \cup {taskId})
  IN IF r.found THEN r
     ELSE [found |-> FALSE, visited |-> r.visited,
           recursionStack |-> r.recursionStack \ {taskId}]

RECURSIVE validateCircularFrom(_, _, _, _)

\* the for loop over workflow of validateCircularDependencies, from index i
validateCircularFrom(wf, i, visited, recursionStack) ==
  IF i > Len(wf) THEN [ok |-> TRUE, error |-> NoError]
  ELSE IF wf[i].id \in visited
       THEN validateCircularFrom(wf, i + 1, visited, recursionStack)
       ELSE LET r == hasCircularDependency(wf[i].id, wf, visited, recursionStack)
            IN IF r.found
               THEN [ok |-> FALSE, error |-> Err(CIRCULAR_DEPENDENCY(wf[i].id))]
               ELSE validateCircularFrom(wf, i + 1, r.visited, r.recursionStack)

validateCircularDependencies(wf) == validateCircularFrom(wf, 1, {}, {})

\* validateWorkflow without its third check
validateWorkflow_NoCycleCheck(wf) ==
  LET r1 == validateTaskIds(wf)
      r2 == validateDependencies(wf)
  IN IF ~r1.ok THEN r1 ELSE r2

\* validateWorkflow of a validator that keeps the ids of the lists it has seen
validateWorkflow_SharedIds(wf) ==
  LET r1 == validateTaskIds(wf)
      r2 == validateDependencies(wf)
  IN IF \E i \in 1..Len(call) : TaskIdsOf(call[i].workflow) \cap TaskIdsOf(wf) # {}
     THEN [ok |-> FALSE, error |-> Err(DUPLICATE_TASK_IDS)]
     ELSE IF ~r1.ok THEN r1
     ELSE IF ~r2.ok THEN r2
     ELSE validateCircularDependencies(wf)

\* validateWorkflow that checks the references before the ids
validateWorkflow_ReferencesFirst(wf) ==
  LET r1 == validateTaskIds(wf)
      r2 == validateDependencies(wf)
  IN IF ~r2.ok THEN r2
     ELSE IF ~r1.ok THEN r1
     ELSE validateCircularDependencies(wf)

validateWorkflow(wf) ==
  LET r1 == validateTaskIds(wf)
      r2 == validateDependencies(wf)
  IN IF ~r1.ok THEN r1
     ELSE IF ~r2.ok THEN r2
     ELSE validateCircularDependencies(wf)

RECURSIVE collectDependencies(_, _, _, _)
RECURSIVE collectDeps(_, _, _, _, _)

\* the for loop over task.dependencies of collectDependencies, from index k
collectDeps(deps, k, wf, dependencies, visited) ==
  IF k > Len(deps)
  THEN [dependencies |-> dependencies, visited |-> visited]
  ELSE LET r == collectDependencies(deps[k], wf, dependencies \cup {deps[k]},
                                    visited)
       IN collectDeps(deps, k + 1, wf, r.dependencies, r.visited)

collectDependencies(taskId, wf, dependencies, visited) ==
  IF taskId \in visited
  THEN [dependencies |-> dependencies, visited |-> visited]
  ELSE LET task == FindTask(wf, taskId)
           deps == IF task = <<>> THEN <<>> ELSE task[1].dependencies
       IN collectDeps(deps, 1, wf, dependencies, visited \cup {taskId})

\* getTransitiveDependencies that stops at the task's own dependency list
getTransitiveDependencies_DirectOnly(taskId, wf) ==
  LET task == FindTask(wf, taskId)
  IN IF task = <<>> THEN {} ELSE Range(task[1].dependencies)

getTransitiveDependencies(taskId, wf) ==
  collectDependencies(taskId, wf, {}, {}).dependencies

RECURSIVE topologicalSort(_, _, _, _, _)
RECURSIVE topologicalSortDeps(_, _, _, _, _, _)

\* the for loop over task.dependencies of topologicalSort, from index k
topologicalSortDeps(deps, k, wf, executionOrder, visited, tempVisited) ==
  IF k > Len(deps)
  THEN [ok |-> TRUE, error |-> NoError, executionOrder |-> executionOrder,
        visited |-> visited, tempVisited |-> tempVisited]
  ELSE LET r == topologicalSort(deps[k], wf, executionOrder, visited,
                                tempVisited)
       IN IF ~r.ok THEN r
          ELSE topologicalSortDeps(deps, k + 1, wf, r.executionOrder,
                                   r.visited, r.tempVisited)

topologicalSort(taskId, wf, executionOrder, visited, tempVisited) ==
  IF taskId \in tempVisited
  THEN [ok |-> FALSE, error |-> Err(CIRCULAR_DEPENDENCY(taskId)),
        executionOrder |-> executionOrder, visited |-> visited,
        tempVisited |-> tempVisited]
  ELSE IF taskId \in visited
  THEN [ok |-> TRUE, error |-> NoError, executionOrder |-> executionOrder,
        visited |-> visited, tempVisited |-> tempVisited]
  ELSE LET task == FindTask(wf, taskId)
           deps == IF task = <<>> THEN <<>> ELSE task[1].dependencies
           r == topologicalSortDeps(deps, 1, wf, executionOrder, visited,
                                    tempVisited \cup {taskId})
       IN IF ~r.ok THEN r
          ELSE [ok |-> TRUE, error |-> NoError,
                executionOrder |-> Append(r.executionOrder, taskId),
                visited |-> r.visited \cup {taskId},
                tempVisited |-> r.tempVisited \ {taskId}]

RECURSIVE getExecutionOrderFrom(_, _, _, _, _)

\* the for loop over workflow of getExecutionOrder, from index i
getExecutionOrderFrom(wf, i, executionOrder, visited, tempVisited) ==
  IF i > Len(wf)
  THEN [ok |-> TRUE, error |-> NoError, executionOrder |-> executionOrder]
  ELSE IF wf[i].id \in visited
       THEN getExecutionOrderFrom(wf, i + 1, executionOrder, visited,
                                  tempVisited)
       ELSE LET r == topologicalSort(wf[i].id, wf, executionOrder, visited,
                                     tempVisited)
            IN IF ~r.ok
               THEN [ok |-> FALSE, error |-> r.error,
                     executionOrder |-> r.executionOrder]
               ELSE getExecutionOrderFrom(wf, i + 1, r.executionOrder,
                                          r.visited, r.tempVisited)

\* getExecutionOrder that returns the ids as the list has them
getExecutionOrder_ListOrder(wf) ==
  [ok |-> TRUE, error |-> NoError,
   executionOrder |-> [i \in 1..Len(wf) |-> wf[i].id]]

\* the ids in execution order, or the error thrown
getExecutionOrder(wf) == getExecutionOrderFrom(wf, 1, <<>>, {}, {})

\* a JavaScript value as validateTask looks at it: its type ("undefined",
\* "string", "number", "function", "array"), the text of a string, a number
\* in tenths, the items of an array
Value(type, s, n, items) == [type |-> type, s |-> s, n |-> n, items |-> items]
Undefined == Value("undefined", "", 0, <<>>)
Str(s) == Value("string", s, 0, <<>>)
Num(tenths) == Value("number", "", tenths, <<>>)
Fn == Value("function", "", 0, <<>>)
Arr(items) == Value("array", "", 0, items)

\* the value converts to true
Truthy(v) ==
  CASE v.type = "undefined" -> FALSE
    [] v.type = "string" -> v.s # ""
    [] v.type = "number" -> v.n # 0
    [] OTHER -> TRUE

\* String.prototype.trim, on the strings used
trim(s) == IF s = " " THEN "" ELSE s

isInteger(v) == v.type = "number" /\ v.n % 10 = 0

\* the value inside a template literal
Text(v) ==
  CASE v.type = "string" -> v.s
    [] v.type = "number" -> ToString(v.n \div 10)
    [] OTHER -> v.type

EMPTY_TASK_ID ==
  <<"Task", "ID", "is", "required", "and", "cannot", "be", "empty">>
INVALID_HANDLER(taskId) ==
  <<"Task", taskId, "must", "have", "a", "valid", "handler", "function">>
INVALID_RETRIES(taskId) ==
  <<"Task", taskId, "retries", "must", "be", "a", "non-negative", "integer">>
INVALID_TIMEOUT(taskId) ==
  <<"Task", taskId, "timeoutMs", "must", "be", "a", "positive", "integer">>
INVALID_DEPENDENCIES(taskId) ==
  <<"Task", taskId, "dependencies", "must", "be", "an", "array">>
INVALID_DEPENDENCY_ID(taskId, depId) ==
  <<"Task", taskId, "has", "invalid", "dependency", "ID:", depId>>
SELF_DEPENDENCY(taskId) ==
  <<"Task", taskId, "cannot", "depend", "on", "itself">>

RECURSIVE validateTaskDeps(_, _)

\* the for loop over task.dependencies of validateTask, from index k
validateTaskDeps(task, k) ==
  LET deps == task.dependencies.items
  IN IF k > Len(deps) THEN [ok |-> TRUE, error |-> NoError]
     ELSE IF deps[k].type # "string" \/ trim(deps[k].s) = ""
     THEN [ok |-> FALSE,
           error |-> Err(INVALID_DEPENDENCY_ID(Text(task.id), Text(deps[k])))]
     ELSE IF deps[k] = task.id
     THEN [ok |-> FALSE, error |-> Err(SELF_DEPENDENCY(Text(task.id)))]
     ELSE validateTaskDeps(task, k + 1)

\* validateTask that compares the id and the dependency ids untrimmed
validateTask_NoTrim(task) ==
  IF ~Truthy(task.id)
  THEN [ok |-> FALSE, error |-> Err(EMPTY_TASK_ID)]
  ELSE IF task.handler.type # "function"
  THEN [ok |-> FALSE, error |-> Err(INVALID_HANDLER(Text(task.id)))]
  ELSE IF task.retries # Undefined
          /\ (task.retries.n < 0 \/ ~isInteger(task.retries))
  THEN [ok |-> FALSE, error |-> Err(INVALID_RETRIES(Text(task.id)))]
  ELSE IF task.timeoutMs # Undefined
          /\ (task.timeoutMs.n <= 0 \/ ~isInteger(task.timeoutMs))
  THEN [ok |-> FALSE, error |-> Err(INVALID_TIMEOUT(Text(task.id)))]
  ELSE IF Truthy(task.dependencies) /\ task.dependencies.type # "array"
  THEN [ok |-> FALSE, error |-> Err(INVALID_DEPENDENCIES(Text(task.id)))]
  ELSE IF \E k \in 1..Len(task.dependencies.items) :
             task.dependencies.items[k].s = ""
  THEN [ok |-> FALSE, error |-> Err(INVALID_DEPENDENCY_ID(Text(task.id), ""))]
  ELSE [ok |-> TRUE, error |-> NoError]

validateTask(task) ==
  IF ~Truthy(task.id) \/ trim(task.id.s) = ""
  THEN [ok |-> FALSE, error |-> Err(EMPTY_TASK_ID)]
  ELSE IF task.handler.type # "function"
  THEN [ok |-> FALSE, error |-> Err(INVALID_HANDLER(Text(task.id)))]
  ELSE IF task.retries # Undefined
          /\ (task.retries.n < 0 \/ ~isInteger(task.retries))
  THEN [ok |-> FALSE, error |-> Err(INVALID_RETRIES(Text(task.id)))]
  ELSE IF task.timeoutMs # Undefined
          /\ (task.timeoutMs.n <= 0 \/ ~isInteger(task.timeoutMs))
  THEN [ok |-> FALSE, error |-> Err(INVALID_TIMEOUT(Text(task.id)))]
  ELSE IF Truthy(task.dependencies) /\ task.dependencies.type # "array"
  THEN [ok |-> FALSE, error |-> Err(INVALID_DEPENDENCIES(Text(task.id)))]
  ELSE IF Truthy(task.dependencies)
  THEN validateTaskDeps(task, 1)
  ELSE [ok |-> TRUE, error |-> NoError]

-----------------------------------------------------------------------------
(* retry-utils *)

\* an optional field is the empty list when absent, <<v>> when present
OrElse(opt, dflt) == IF opt = <<>> THEN dflt ELSE opt[1]

RECURSIVE Pow2(_)
Pow2(n) == IF n <= 0 THEN 1 ELSE 2 * Pow2(n - 1)

Min(x, y) == IF x <= y THEN x ELSE y

\* jitter: the values of Math.random() * 0.1 * exponentialDelay, in whole
\* ms; Math.random() is less than 1
JitterChoices(count, config) ==
  IF OrElse(config.strategy, "exponential") = "jitter"
  THEN 0..((Pow2(count - 1) * config.baseDelayMs - 1) \div 10)
  ELSE {0}

\* calculateRetryDelay without the cap of maxDelayMs
calculateRetryDelay_NoCap(count, config, jitter) ==
  LET strategy == OrElse(config.strategy, "exponential")
  IN CASE strategy = "exponential" -> Pow2(count - 1) * config.baseDelayMs
       [] strategy = "linear" -> count * config.baseDelayMs
       [] strategy = "jitter" -> Pow2(count - 1) * config.baseDelayMs + jitter
       [] OTHER -> config.baseDelayMs

\* calculateRetryDelay that waits baseDelayMs before every retry
calculateRetryDelay_Constant(count, config, jitter) == config.baseDelayMs

\* strategy and maxDelayMs are optional fields of the RetryConfig
calculateRetryDelay(count, config, jitter) ==
  LET strategy == OrElse(config.strategy, "exponential")
      maxDelayMs == OrElse(config.maxDelayMs, 30000)
      d == CASE strategy = "exponential" -> Pow2(count - 1) * config.baseDelayMs
             [] strategy = "linear" -> count * config.baseDelayMs
             [] strategy = "jitter" ->
                  Pow2(count - 1) * config.baseDelayMs + jitter
             [] OTHER -> config.baseDelayMs
  IN Min(d, maxDelayMs)

\* shouldRetry that finds every error retryable
shouldRetry_Always(error, retryableErrors) == TRUE

\* shouldRetry comparing the message and the entries as they are written
shouldRetry_CaseSensitive(error, retryableErrors) ==
  LET allRetryableErrors == DEFAULT_RETRYABLE_ERRORS \o retryableErrors
  IN \E i \in 1..Len(allRetryableErrors) :
        includes(error.message, allRetryableErrors[i])

shouldRetry(error, retryableErrors) ==
  LET allRetryableErrors == DEFAULT_RETRYABLE_ERRORS \o retryableErrors
      errorMessage == toLowerCase(error.message)
  IN \E i \in 1..Len(allRetryableErrors) :
        includes(errorMessage, toLowerCase(allRetryableErrors[i]))

\* createRetryConfig granting one retry too many
createRetryConfig_ExtraRetry(task) ==
  [maxRetries |-> OrElse(task.retries, 0) + 1,
   timeoutMs |-> OrElse(task.timeoutMs, 2000),
   exponentialBackoff |-> TRUE,
   baseDelayMs |-> 100,
   strategy |-> <<OrElse(task.retryStrategy, "exponential")>>,
   maxDelayMs |-> <<30000>>]

createRetryConfig(task) ==
  [maxRetries |-> OrElse(task.retries, 0),
   timeoutMs |-> OrElse(task.timeoutMs, 2000),
   exponentialBackoff |-> TRUE,
   baseDelayMs |-> 100,
   strategy |-> <<OrElse(task.retryStrategy, "exponential")>>,
   maxDelayMs |-> <<30000>>]

\* validateRetryConfig without the checks of maxRetries and timeoutMs
validateRetryConfig_Lenient(config) ==
  IF config.baseDelayMs <= 0
  THEN [ok |-> FALSE,
        error |-> Err(<<"baseDelayMs", "must", "be", "a", "positive", "integer">>)]
  ELSE [ok |-> TRUE, error |-> NoError]

\* validateRetryConfig without the check of maxDelayMs
validateRetryConfig_NoMaxDelayCheck(config) ==
  IF config.maxRetries < 0
  THEN [ok |-> FALSE,
        error |-> Err(<<"maxRetries", "must", "be", "a", "non-negative", "integer">>)]
  ELSE IF config.timeoutMs <= 0
  THEN [ok |-> FALSE,
        error |-> Err(<<"timeoutMs", "must", "be", "a", "positive", "integer">>)]
  ELSE IF config.baseDelayMs <= 0
  THEN [ok |-> FALSE,
        error |-> Err(<<"baseDelayMs", "must", "be", "a", "positive", "integer">>)]
  ELSE [ok |-> TRUE, error |-> NoError]

validateRetryConfig(config) ==
  IF config.maxRetries < 0
  THEN [ok |-> FALSE,
        error |-> Err(<<"maxRetries", "must", "be", "a", "non-negative", "integer">>)]
  ELSE IF config.timeoutMs <= 0
  THEN [ok |-> FALSE,
        error |-> Err(<<"timeoutMs", "must", "be", "a", "positive", "integer">>)]
  ELSE IF config.baseDelayMs <= 0
  THEN [ok |-> FALSE,
        error |-> Err(<<"baseDelayMs", "must", "be", "a", "positive", "integer">>)]
  ELSE IF config.maxDelayMs # <<>> /\ config.maxDelayMs[1] <= 0
  THEN [ok |-> FALSE,
        error |-> Err(<<"maxDelayMs", "must", "be", "a", "positive", "integer">>)]
  ELSE [ok |-> TRUE, error |-> NoError]

\* the timeout error with a message that matches no retryable substring
TimeoutError_Expired(task, timeoutMs) ==
  Err(<<"Task", task.id, "expired", "after", ToString(timeoutMs), "ms">>)

TimeoutError(task, timeoutMs) ==
  Err(<<"Task", task.id, "timed", "out", "after", ToString(timeoutMs), "ms">>)

-----------------------------------------------------------------------------
(* TaskStateTracker *)

\* isReady that does not look at the dependencies
isReady_IgnoreDeps(task) ==
  ~(task.id \in completed \/ task.id \in inProgress)

isReady(task) ==
  IF task.id \in completed \/ task.id \in inProgress THEN FALSE
  ELSE \A k \in 1..Len(task.dependencies) : task.dependencies[k] \in completed

\* getPending that returns the first ready task only
getPending_FirstOnly(wf) ==
  LET ready == SelectSeq(wf, isReady)
  IN SubSeq(ready, 1, IF Len(ready) > 0 THEN 1 ELSE 0)

\* getPending that lists the ready tasks last to first
getPending_Reversed(wf) ==
  LET ready == SelectSeq(wf, isReady)
  IN [k \in 1..Len(ready) |-> ready[Len(ready) + 1 - k]]

getPending(wf) == SelectSeq(wf, isReady)

getRemaining(wf) == SelectSeq(wf, LAMBDA task : task.id \notin completed)

isAllCompleted(total) == Cardinality(completed) = total

-----------------------------------------------------------------------------
(* Inputs *)

Task(id, deps, cfg) ==
  [id |-> id, dependencies |-> deps, retries |-> cfg.retries,
   timeoutMs |-> cfg.timeoutMs, retryStrategy |-> <<>>,
   retryableErrors |-> cfg.retryableErrors]

DefaultConfig == [retries |-> <<>>, timeoutMs |-> <<>>, retryableErrors |-> <<>>]

\* the retry settings of the tasks of an executed list: nothing given, up to
\* MaxRetries retries with and without retryable errors of the task's own,
\* negative retries, a timeout of zero
Configs ==
  {DefaultConfig}
  \cup {[retries |-> <<r>>, timeoutMs |-> <<100>>, retryableErrors |-> <<>>] :
           r \in {-1, MaxRetries}}
  \cup {[retries |-> <<>>, timeoutMs |-> <<0>>, retryableErrors |-> <<>>]}
  \cup {[retries |-> <<MaxRetries>>, timeoutMs |-> <<>>,
         retryableErrors |-> << <<"task", "failed">> >>]}

\* the (id, dependencies) lists of the executed lists
Shapes ==
  { <<>>,
    << <<"a", <<>>>> >>,
    << <<"a", <<>>>>, <<"b", <<>>>> >>,
    << <<"a", <<>>>>, <<"b", <<"a">>>> >>,
    << <<"b", <<"a">>>>, <<"a", <<>>>> >>,
    << <<"a", <<>>>>, <<"b", <<>>>>, <<"c", <<>>>> >>,
    << <<"a", <<>>>>, <<"b", <<"a">>>>, <<"c", <<"a">>>> >>,
    << <<"a", <<>>>>, <<"b", <<"a">>>>, <<"c", <<>>>> >>,
    << <<"a", <<>>>>, <<"b", <<>>>>, <<"c", <<"a", "b">>>> >>,
    << <<"c", <<"b">>>>, <<"b", <<"a">>>>, <<"a", <<>>>> >>,
    << <<"a", <<>>>>, <<"a", <<>>>> >>,
    << <<"a", <<Ghost>>>> >>,
    << <<"a", <<"b">>>>, <<"b", <<"a">>>> >>,
    << <<"a", <<"a">>>> >> }

\* the retry settings of the tasks of the lists of three tasks: nothing
\* given, one retry, a timeout of zero
FewConfigs ==
  {DefaultConfig,
   [retries |-> <<1>>, timeoutMs |-> <<100>>, retryableErrors |-> <<>>],
   [retries |-> <<>>, timeoutMs |-> <<0>>, retryableErrors |-> <<>>]}

RunInputs ==
  UNION {{[i \in 1..Len(sh) |-> Task(sh[i][1], sh[i][2], cf[i])] :
            cf \in [1..Len(sh) -> IF Len(sh) > 2 THEN FewConfigs ELSE Configs]} :
         sh \in Shapes}

\* the messages the handlers of the model reject with
HandlerErrors == {<<"Network", "error">>, <<"Task", "failed">>}

RECURSIVE SeqsUpTo(_, _)
SeqsUpTo(S, n) ==
  IF n = 0 THEN {<<>>}
  ELSE LET shorter == SeqsUpTo(S, n - 1)
       IN shorter \cup {Append(q, x) : q \in shorter, x \in S}

\* the lists handed to the validator: up to n tasks, any ids, dependency
\* lists of up to MaxDeps ids, existing or not
ValidatorInputs(n) ==
  SeqsUpTo({Task(id, deps, DefaultConfig) :
              id \in Ids, deps \in SeqsUpTo(Ids \cup {Ghost}, MaxDeps)},
           n)

-----------------------------------------------------------------------------
(* WorkflowEngineService and RetryHandlerService *)

Ev(type, n) == [type |-> type, retryCount |-> n]

TaskOf(t) == FindTask(workflow, t)[1]

SetResult(map, t, r) ==
  [x \in DOMAIN map \cup {t} |-> IF x = t THEN r ELSE map[x]]

InitRest ==
  /\ pc = "init"
  /\ verdict = <<>>
  /\ completed = {}
  /\ inProgress = {}
  /\ wave = {}
  /\ waveNo = 0
  /\ startedAt = [t \in Ids |-> 0]
  /\ results = <<>>
  /\ errors = <<>>
  /\ tpc = [t \in Ids |-> "idle"]
  /\ retryCount = [t \in Ids |-> 0]
  /\ lastError = [t \in Ids |-> NoError]
  /\ attempts = [t \in Ids |-> <<>>]
  /\ invoked = [t \in Ids |-> 0]
  /\ sleep = [t \in Ids |-> 0]
  /\ events = [t \in Ids |-> <<>>]
  /\ wfEvents = <<>>
  /\ ret = [success |-> FALSE, results |-> <<>>, errors |-> <<>>]
  /\ dispatches = [t \in Ids |-> 0]
  /\ writes = [t \in Ids |-> 0]
  /\ abandoned = [t \in Ids |-> 0]
  /\ syncCalls = <<>>

\* one call of run, no call of a utility function
InitAlone == InitRest /\ parked = <<>> /\ call = <<>> /\ out = <<>>

Init == workflow \in RunInputs /\ InitAlone

InitV == workflow \in ValidatorInputs(Cardinality(Ids)) /\ InitAlone

taskVars == << completed, inProgress, startedAt, results, errors, tpc,
               retryCount, lastError, attempts, invoked, sleep, events,
               dispatches, writes, abandoned, syncCalls >>

\* what no step of a call of run touches
otherVars == << parked, call, out >>

\* the normal return emitting WORKFLOW_COMPLETED whatever the errors
Finish_AlwaysCompleted(wfEv) ==
  /\ ret' = [success |-> Len(errors) = 0, results |-> results, errors |-> errors]
  /\ wfEvents' = Append(wfEv, "WORKFLOW_COMPLETED")
  /\ pc' = "returned"

\* a return that reports success only when some task has a result
Finish_NeedsResult(wfEv) ==
  LET success == Len(errors) = 0 /\ DOMAIN results # {}
  IN /\ ret' = [success |-> success, results |-> results, errors |-> errors]
     /\ wfEvents' = Append(wfEv, IF success THEN "WORKFLOW_COMPLETED"
                                            ELSE "WORKFLOW_FAILED")
     /\ pc' = "returned"

\* run, lines 57-81: executeTasks has returned
Finish(wfEv) ==
  LET success == Len(errors) = 0
  IN /\ ret' = [success |-> success, results |-> results, errors |-> errors]
     /\ wfEvents' = Append(wfEv, IF success THEN "WORKFLOW_COMPLETED"
                                            ELSE "WORKFLOW_FAILED")
     /\ pc' = "returned"

\* the catch block computing success as the normal return does
Catch_SuccessFromErrors(error, wfEv) ==
  /\ ret' = [success |-> Len(errors) = 0, results |-> results,
             errors |-> <<error>>]
  /\ wfEvents' = Append(wfEv, "WORKFLOW_FAILED")
  /\ pc' = "returned"

\* run, lines 82-96: the catch block
Catch(error, wfEv) ==
  /\ ret' = [success |-> FALSE, results |-> results, errors |-> <<error>>]
  /\ wfEvents' = Append(wfEv, "WORKFLOW_FAILED")
  /\ pc' = "returned"

\* what executeTask(task) calls before its first await, in order: the
\* tracker, the emitter, and through executeWithRetry, when the configuration
\* check passes, executeTaskWithTimeout and there the handler
executeTaskCalls(task) ==
  << [op |-> "markInProgress", id |-> task.id],
     [op |-> "TASK_STARTED", id |-> task.id] >>
  \o (IF validateRetryConfig(createRetryConfig(task)).ok
      THEN << [op |-> "handler", id |-> task.id] >>
      ELSE <<>>)

RECURSIVE mapExecuteTask(_, _)
\* readyTasks.map((task) => this.executeTask(...)), from index k
mapExecuteTask(readyTasks, k) ==
  IF k > Len(readyTasks) THEN <<>>
  ELSE executeTaskCalls(readyTasks[k]) \o mapExecuteTask(readyTasks, k + 1)

\* the calls of the map with every markInProgress moved to the front
executions_MarksFirst(readyTasks) ==
  LET all == mapExecuteTask(readyTasks, 1)
  IN SelectSeq(all, LAMBDA c : c.op = "markInProgress")
     \o SelectSeq(all, LAMBDA c : c.op # "markInProgress")

\* const executions = readyTasks.map(...): the calls it makes
executions(readyTasks) == mapExecuteTask(readyTasks, 1)

\* executeTask up to its await, for every task of readyTasks: markInProgress,
\* TASK_STARTED, then executeWithRetry up to its first await: the
\* configuration check and the first call of the handler
Dispatch(readyTasks, wfEv) ==
  LET ready == {readyTasks[i].id : i \in 1..Len(readyTasks)}
      valid(t) == validateRetryConfig(createRetryConfig(TaskOf(t))).ok
  IN /\ inProgress' = inProgress \cup ready
     /\ events' = [t \in Ids |-> IF t \in ready
                                  THEN Append(events[t], Ev("TASK_STARTED", 0))
                                  ELSE events[t]]
     /\ tpc' = [t \in Ids |-> IF t \notin ready THEN tpc[t]
                               ELSE IF valid(t) THEN "running" ELSE "rejected"]
     /\ invoked' = [t \in Ids |-> IF t \in ready /\ valid(t)
                                   THEN invoked[t] + 1 ELSE invoked[t]]
     /\ startedAt' = [t \in Ids |-> IF t \in ready THEN waveNo + 1
                                     ELSE startedAt[t]]
     /\ dispatches' = [t \in Ids |-> IF t \in ready THEN dispatches[t] + 1
                                      ELSE dispatches[t]]
     /\ syncCalls' = executions(readyTasks)
     /\ wave' = ready
     /\ waveNo' = waveNo + 1
     /\ wfEvents' = wfEv
     /\ pc' = "executing"
     /\ UNCHANGED << completed, results, errors, retryCount, lastError,
                     attempts, sleep, ret, writes, abandoned >>

\* one evaluation of the while loop of executeTasks, and what follows it
LoopIteration(wfEv) ==
  IF isAllCompleted(Len(workflow))
  THEN Finish(wfEv) /\ wave' = {} /\ UNCHANGED << waveNo, taskVars >>
  ELSE LET readyTasks == getPending(workflow)
           remaining == getRemaining(workflow)
       IN IF Len(readyTasks) = 0
          THEN /\ IF Len(remaining) > 0
                  THEN Catch(Err(DEADLOCK_DETECTED(
                          [i \in 1..Len(remaining) |-> remaining[i].id])), wfEv)
                  ELSE Finish(wfEv)
               /\ wave' = {}
               /\ UNCHANGED << waveNo, taskVars >>
          ELSE Dispatch(readyTasks, wfEv)

\* run up to its first await: WORKFLOW_STARTED, validateWorkflow, and the
\* first evaluation of the loop of executeTasks
RunStart ==
  /\ pc = "init"
  /\ LET v == validateWorkflow(workflow)
         wfEv == Append(wfEvents, "WORKFLOW_STARTED")
     IN /\ verdict' = <<v>>
        /\ IF v.ok THEN LoopIteration(wfEv)
           ELSE /\ Catch(v.error, wfEv)
                /\ UNCHANGED << wave, waveNo, taskVars >>
  /\ UNCHANGED << workflow, otherVars >>

\* a join that goes on as soon as one executeTask of the wave returned
WaveJoin_AnyDone ==
  /\ pc = "executing"
  /\ \E t \in wave : tpc[t] = "done"
  /\ LoopIteration(wfEvents)
  /\ UNCHANGED << workflow, verdict, otherVars >>

\* Promise.all(executions) resolves: every executeTask of the wave returned
WaveJoin ==
  /\ pc = "executing"
  /\ \A t \in wave : tpc[t] = "done"
  /\ LoopIteration(wfEvents)
  /\ UNCHANGED << workflow, verdict, otherVars >>

\* Promise.all(executions) rejects with the first rejection of the wave: an
\* executeTask whose executeWithRetry threw the configuration error
RunAbort ==
  /\ pc = "executing"
  /\ \E t \in wave : tpc[t] = "rejected"
  /\ LET i == CHOOSE k \in 1..Len(workflow) :
                 /\ workflow[k].id \in wave /\ tpc[workflow[k].id] = "rejected"
                 /\ \A j \in 1..(k - 1) :
                       ~(workflow[j].id \in wave /\ tpc[workflow[j].id] = "rejected")
     IN Catch(validateRetryConfig(createRetryConfig(workflow[i])).error, wfEvents)
  /\ UNCHANGED << workflow, verdict, wave, waveNo, taskVars, otherVars >>

\* tracker.markInProgress
markInProgress(t) == inProgress' = inProgress \cup {t}

\* markCompleted that leaves the id in inProgress
markCompleted_KeepsInProgress(t) ==
  /\ inProgress' = inProgress
  /\ completed' = completed \cup {t}

\* markCompleted that takes a completed id out of completed again
markCompleted_Toggle(t) ==
  /\ inProgress' = inProgress \ {t}
  /\ completed' = IF t \in completed THEN completed \ {t}
                  ELSE completed \cup {t}

\* tracker.markCompleted
markCompleted(t) ==
  /\ inProgress' = inProgress \ {t}
  /\ completed' = completed \cup {t}

\* the attempt of t succeeds: executeWithRetry returns success, executeTask
\* emits TASK_COMPLETED, stores the result and marks the task completed
AttemptSucceeds(t) ==
  /\ tpc[t] = "running"
  /\ attempts' = [attempts EXCEPT ![t] = Append(@, TRUE)]
  /\ events' = [events EXCEPT ![t] = Append(@, Ev("TASK_COMPLETED", 0))]
  /\ results' = SetResult(results, t,
        [id |-> t, success |-> TRUE, error |-> NoError,
         retryCount |-> retryCount[t]])
  /\ writes' = [writes EXCEPT ![t] = @ + 1]
  /\ markCompleted(t)
  /\ tpc' = [tpc EXCEPT ![t] = "done"]
  /\ UNCHANGED << workflow, pc, verdict, wave, waveNo, startedAt, errors,
                  syncCalls,
                  retryCount, lastError, invoked, sleep, wfEvents, ret,
                  dispatches, abandoned, otherVars >>

\* the catch block of executeWithRetry for the attempt of t failing with
\* error, then either handleRetry up to its delay, or the failure result and
\* the rest of executeTask (the caller says what becomes of the handler call)
AttemptFails(t, error) ==
  LET task == TaskOf(t)
      config == createRetryConfig(task)
      count == retryCount[t] + 1
  IN /\ tpc[t] = "running"
     /\ lastError' = [lastError EXCEPT ![t] = error]
     /\ retryCount' = [retryCount EXCEPT ![t] = count]
     /\ attempts' = [attempts EXCEPT ![t] = Append(@, FALSE)]
     /\ IF count <= config.maxRetries /\ shouldRetry(error, task.retryableErrors)
        THEN /\ events' = [events EXCEPT ![t] = Append(@, Ev("TASK_RETRY", count))]
             /\ \E j \in JitterChoices(count, config) :
                   sleep' = [sleep EXCEPT ![t] = calculateRetryDelay(count, config, j)]
             /\ tpc' = [tpc EXCEPT ![t] = "delay"]
             /\ UNCHANGED << completed, inProgress, results, errors, writes >>
        ELSE /\ events' = [events EXCEPT ![t] = Append(@, Ev("TASK_FAILED", count - 1))]
             /\ errors' = Append(errors, error)
             /\ results' = SetResult(results, t,
                   [id |-> t, success |-> FALSE, error |-> error,
                    retryCount |-> count - 1])
             /\ writes' = [writes EXCEPT ![t] = @ + 1]
             /\ markCompleted(t)
             /\ tpc' = [tpc EXCEPT ![t] = "done"]
             /\ UNCHANGED sleep
     /\ UNCHANGED << workflow, pc, verdict, wave, waveNo, startedAt, invoked,
                     syncCalls,
                     wfEvents, ret, dispatches, otherVars >>

\* the promise of the handler resolves before the timer
HandlerResolves(t) == AttemptSucceeds(t)

\* the promise of the handler rejects before the timer
HandlerRejects(t) ==
  /\ \E msg \in HandlerErrors : AttemptFails(t, Err(msg))
  /\ UNCHANGED abandoned

\* the timer firing without failing the attempt, which goes on waiting for
\* the handler
AttemptTimesOut_WaitsForHandler(t) ==
  /\ tpc[t] = "running"
  /\ abandoned[t] = 0
  /\ abandoned' = [abandoned EXCEPT ![t] = 1]
  /\ UNCHANGED << workflow, pc, verdict, completed, inProgress, wave, waveNo,
                  syncCalls,
                  startedAt, results, errors, tpc, retryCount, lastError,
                  attempts, invoked, sleep, events, wfEvents, ret, dispatches,
                  writes, otherVars >>

\* the timer of executeTaskWithTimeout fires before the handler settles
AttemptTimesOut(t) ==
  /\ tpc[t] = "running"
  /\ AttemptFails(t, TimeoutError(TaskOf(t), createRetryConfig(TaskOf(t)).timeoutMs))
  /\ abandoned' = [abandoned EXCEPT ![t] = @ + 1]

\* a settlement of the abandoned call that reaches the error list of the run
AbandonedSettles_ReportsError(t) ==
  /\ abandoned[t] > 0
  /\ abandoned' = [abandoned EXCEPT ![t] = @ - 1]
  /\ errors' = Append(errors, lastError[t])
  /\ UNCHANGED << workflow, pc, verdict, completed, inProgress, wave, waveNo,
                  syncCalls, startedAt, results, tpc, retryCount, lastError,
                  attempts, invoked, sleep, events, wfEvents, ret, dispatches,
                  writes, otherVars >>

\* a handler call that lost the race settles, with a value or an error: the
\* promise returned by Promise.race is settled already and nothing reads it
AbandonedSettles(t) ==
  /\ abandoned[t] > 0
  /\ abandoned' = [abandoned EXCEPT ![t] = @ - 1]
  /\ UNCHANGED << workflow, pc, verdict, completed, inProgress, wave, waveNo,
                  syncCalls,
                  startedAt, results, errors, tpc, retryCount, lastError,
                  attempts, invoked, sleep, events, wfEvents, ret, dispatches,
                  writes, otherVars >>

\* the delay of handleRetry elapses: the loop calls the handler again
DelayElapses(t) ==
  /\ tpc[t] = "delay"
  /\ tpc' = [tpc EXCEPT ![t] = "running"]
  /\ invoked' = [invoked EXCEPT ![t] = @ + 1]
  /\ sleep' = [sleep EXCEPT ![t] = 0]
  /\ UNCHANGED << workflow, pc, verdict, completed, inProgress, wave, waveNo,
                  syncCalls,
                  startedAt, results, errors, retryCount, lastError, attempts,
                  events, wfEvents, ret, dispatches, writes, abandoned,
                  otherVars >>

Next ==
  \/ RunStart
  \/ WaveJoin
  \/ RunAbort
  \/ \E t \in Ids : HandlerResolves(t)
  \/ \E t \in Ids : HandlerRejects(t)
  \/ \E t \in Ids : AttemptTimesOut(t)
  \/ \E t \in Ids : DelayElapses(t)
  \/ \E t \in Ids : AbandonedSettles(t)

Spec == Init /\ [][Next]_vars

\* the state of one call of run: its arguments and locals (results, errors,
\* the tracker of executeTasks, the locals of its executeTask and
\* executeWithRetry calls) and what it has emitted and returned
RunState ==
  [workflow |-> workflow, pc |-> pc, verdict |-> verdict,
   completed |-> completed, inProgress |-> inProgress, wave |-> wave,
   waveNo |-> waveNo, startedAt |-> startedAt, results |-> results,
   errors |-> errors, tpc |-> tpc, retryCount |-> retryCount,
   lastError |-> lastError, attempts |-> attempts, invoked |-> invoked,
   sleep |-> sleep, events |-> events, wfEvents |-> wfEvents, ret |-> ret,
   dispatches |-> dispatches, writes |-> writes, abandoned |-> abandoned,
   syncCalls |-> syncCalls]

\* the state of a call of run(wf) that has not started
FreshRun(wf) ==
  [workflow |-> wf, pc |-> "init", verdict |-> <<>>,
   completed |-> {}, inProgress |-> {}, wave |-> {},
   waveNo |-> 0, startedAt |-> [t \in Ids |-> 0], results |-> <<>>,
   errors |-> <<>>, tpc |-> [t \in Ids |-> "idle"],
   retryCount |-> [t \in Ids |-> 0], lastError |-> [t \in Ids |-> NoError],
   attempts |-> [t \in Ids |-> <<>>], invoked |-> [t \in Ids |-> 0],
   sleep |-> [t \in Ids |-> 0], events |-> [t \in Ids |-> <<>>],
   wfEvents |-> <<>>,
   ret |-> [success |-> FALSE, results |-> <<>>, errors |-> <<>>],
   dispatches |-> [t \in Ids |-> 0], writes |-> [t \in Ids |-> 0],
   abandoned |-> [t \in Ids |-> 0], syncCalls |-> <<>>]

\* the event loop going from the one call of run to the other, keeping the
\* tracker where it is: one tracker held by the service
Switch_SharedTracker ==
  /\ parked # <<>>
  /\ parked' = <<RunState>>
  /\ LET o == parked[1]
     IN /\ workflow' = o.workflow /\ pc' = o.pc /\ verdict' = o.verdict
        /\ wave' = o.wave
        /\ waveNo' = o.waveNo /\ startedAt' = o.startedAt
        /\ results' = o.results /\ errors' = o.errors /\ tpc' = o.tpc
        /\ retryCount' = o.retryCount /\ lastError' = o.lastError
        /\ attempts' = o.attempts /\ invoked' = o.invoked /\ sleep' = o.sleep
        /\ events' = o.events /\ wfEvents' = o.wfEvents /\ ret' = o.ret
        /\ dispatches' = o.dispatches /\ writes' = o.writes
        /\ abandoned' = o.abandoned /\ syncCalls' = o.syncCalls
  /\ UNCHANGED << completed, inProgress, call, out >>

\* the event loop goes from the one call of run to the other: each call has
\* its own results, errors and tracker, the service holds none of them
Switch ==
  /\ parked # <<>>
  /\ parked' = <<RunState>>
  /\ LET o == parked[1]
     IN /\ workflow' = o.workflow /\ pc' = o.pc /\ verdict' = o.verdict
        /\ completed' = o.completed /\ inProgress' = o.inProgress
        /\ wave' = o.wave
        /\ waveNo' = o.waveNo /\ startedAt' = o.startedAt
        /\ results' = o.results /\ errors' = o.errors /\ tpc' = o.tpc
        /\ retryCount' = o.retryCount /\ lastError' = o.lastError
        /\ attempts' = o.attempts /\ invoked' = o.invoked /\ sleep' = o.sleep
        /\ events' = o.events /\ wfEvents' = o.wfEvents /\ ret' = o.ret
        /\ dispatches' = o.dispatches /\ writes' = o.writes
        /\ abandoned' = o.abandoned /\ syncCalls' = o.syncCalls
  /\ UNCHANGED << call, out >>

\* the calls of calculateRetryDelay: the retry number, the configuration
\* with and without strategy and maxDelayMs
DelayInputs ==
  {[fn |-> "calculateRetryDelay", retryCount |-> k,
    config |-> [maxRetries |-> 3, timeoutMs |-> 1000,
                exponentialBackoff |-> TRUE, baseDelayMs |-> b,
                strategy |-> st, maxDelayMs |-> mx]] :
     k \in 1..MaxCount, b \in {100, 16000},
     st \in {<<>>, <<"exponential">>, <<"linear">>, <<"jitter">>},
     mx \in {<<>>, <<150>>, <<30000>>}}

InitD ==
  /\ workflow = <<>>
  /\ InitRest
  /\ parked = <<>>
  /\ \E c \in DelayInputs : call = <<c>>
  /\ out = <<>>

\* the call of calculateRetryDelay returns, for some value of Math.random()
ApplyDelay ==
  /\ call # <<>> /\ call[1].fn = "calculateRetryDelay"
  /\ out = <<>>
  /\ \E j \in JitterChoices(call[1].retryCount, call[1].config) :
        out' = <<calculateRetryDelay(call[1].retryCount, call[1].config, j)>>
  /\ UNCHANGED << workflow, pc, verdict, wave, waveNo, wfEvents, ret,
                  taskVars, parked, call >>

NextD == ApplyDelay

\* calculateRetryDelay alone, on every call of DelayInputs
SpecD == InitD /\ [][NextD]_vars

\* the lists of the two calls of run that overlap
OverlapInputs ==
  { << Task("a", <<>>, DefaultConfig) >>,
    << Task("a", <<>>, [retries |-> <<MaxRetries>>, timeoutMs |-> <<100>>,
                        retryableErrors |-> <<>>]) >>,
    << Task("b", <<>>, [retries |-> <<>>, timeoutMs |-> <<0>>,
                        retryableErrors |-> <<>>]) >>,
    << Task("a", <<>>, DefaultConfig), Task("b", <<"a">>, DefaultConfig) >> }

\* two calls of run on the one service, neither started
Init2 ==
  /\ workflow \in OverlapInputs
  /\ InitRest
  /\ \E wf \in OverlapInputs : parked = <<FreshRun(wf)>>
  /\ call = <<>> /\ out = <<>>

Next2 == Next \/ Switch

Spec2 == Init2 /\ [][Next2]_vars

\* the lists of at most two tasks with the retry settings of FewConfigs
ShortInputs ==
  UNION {{[i \in 1..Len(sh) |-> Task(sh[i][1], sh[i][2], cf[i])] :
            cf \in [1..Len(sh) -> FewConfigs]} :
         sh \in {x \in Shapes : Len(x) <= 2}}

InitT == workflow \in ShortInputs /\ InitAlone

\* a step the event loop takes by itself: a continuation that is ready, a
\* timer that is due
EngineStep ==
  \/ RunStart
  \/ WaveJoin
  \/ RunAbort
  \/ \E t \in Ids : AttemptTimesOut(t)
  \/ \E t \in Ids : DelayElapses(t)

\* what the event loop guarantees: while some continuation is ready or some
\* timer is set, one of them runs; nothing makes a handler settle
Fairness == WF_vars(EngineStep)

\* the run of a short list under the guarantees of the event loop
SpecT == InitT /\ [][Next]_vars /\ Fairness

\* the validator alone, on every list of ValidatorInputs
NextV == RunStart

SpecV == InitV /\ [][NextV]_vars

-----------------------------------------------------------------------------
(* Vocabulary of the properties *)

Validated == verdict # <<>>
Accepted == Validated /\ verdict[1].ok
Rejected == Validated /\ ~verdict[1].ok
Returned == pc = "returned"

TaskIds == TaskIdsOf(workflow)
DepsOf(t) == Range(TaskOf(t).dependencies)
RetriesOf(t) == OrElse(TaskOf(t).retries, 0)

HasResult(t) == t \in DOMAIN results
Failed(t) == HasResult(t) /\ ~results[t].success
Dispatched(t) == startedAt[t] > 0

\* no attempt and no backoff delay is pending
Quiescent == \A t \in Ids : tpc[t] \notin {"running", "delay"}

\* retries < 0 or timeoutMs <= 0, read off the task's own fields
Malformed(task) ==
  \/ task.retries # <<>> /\ task.retries[1] < 0
  \/ task.timeoutMs # <<>> /\ task.timeoutMs[1] <= 0

HasDuplicateIds(wf) ==
  \E i, j \in 1..Len(wf) : i # j /\ wf[i].id = wf[j].id

HasMissingReference(wf) ==
  \E i \in 1..Len(wf) : \E k \in 1..Len(wf[i].dependencies) :
     \A j \in 1..Len(wf) : wf[j].id # wf[i].dependencies[k]

\* the ids some task with id x names as a dependency
DirectDeps(wf, x) ==
  UNION {Range(wf[i].dependencies) : i \in {j \in 1..Len(wf) : wf[j].id = x}}

RECURSIVE ReachIn(_, _, _)
\* the ids reachable from the set S by at most n further dependency edges
ReachIn(wf, S, n) ==
  IF n = 0 THEN S
  ELSE ReachIn(wf, S \cup UNION {DirectDeps(wf, y) : y \in S}, n - 1)

\* x reaches itself by one or more dependency edges
OnCycle(wf, x) == x \in ReachIn(wf, DirectDeps(wf, x), Len(wf))

HasCycle(wf) == \E x \in TaskIdsOf(wf) : OnCycle(wf, x)

StructurallyValid(wf) ==
  ~HasDuplicateIds(wf) /\ ~HasMissingReference(wf) /\ ~HasCycle(wf)

-----------------------------------------------------------------------------
(* Properties *)

\* C1: a task's handler is not invoked and its TASK_STARTED is not emitted
\* before every one of its dependencies is marked completed and has its
\* TaskResult in the result map, successful or not.
C1_NoStartBeforeDependencies ==
  Accepted =>
    \A t \in TaskIds :
      (invoked[t] > 0 \/ events[t] # <<>> \/ t \in inProgress) =>
        \A d \in DepsOf(t) : d \in completed /\ HasResult(d)

\* a task whose handler has been invoked after one of its dependencies failed
C1_Witness ==
  /\ Accepted
  /\ \E t \in TaskIds : invoked[t] > 0 /\ \E d \in DepsOf(t) : Failed(d)

\* C2 (as claimed): when run returns for a list that passed validation, the
\* returned result map has exactly one entry per task of the list.
C2_ResultPerTask ==
  (Returned /\ Accepted) => DOMAIN ret.results = TaskIds

\* C3 (as claimed): once nothing is pending any more, every task that ended
\* in failure is completed and every (well-formed) task depending on it
\* whose dependencies are all completed has been dispatched and has a result.
C3_FailureUnblocksDependents ==
  (Returned /\ Accepted /\ Quiescent) =>
    \A t \in TaskIds : Failed(t) =>
      /\ t \in completed
      /\ \A b \in TaskIds :
           (t \in DepsOf(b) /\ DepsOf(b) \subseteq completed
              /\ ~Malformed(TaskOf(b))) =>
             Dispatched(b) /\ HasResult(b)

\* C4 (as claimed): when run returns, every task dispatched in the same wave
\* as a task that failed has its own TaskResult in the returned result map.
C4_SiblingsKeepTheirResults ==
  (Returned /\ Accepted) =>
    \A t, u \in TaskIds :
      (t # u /\ Dispatched(t) /\ startedAt[u] = startedAt[t]
         /\ (Failed(t) \/ tpc[t] = "rejected")) =>
        u \in DOMAIN ret.results

\* C5 (as claimed): when run returns after executing a validated list,
\* success is true iff the error list is empty, the error list holds exactly
\* the last errors of the tasks whose result is a failure, one entry each,
\* and success is true iff every task result is successful.
C5_ErrorsMatchFailedResults ==
  (Returned /\ Accepted) =>
    LET failed == {t \in DOMAIN ret.results : ~ret.results[t].success}
    IN /\ ret.success = (Len(ret.errors) = 0)
       /\ Len(ret.errors) = Cardinality(failed)
       /\ \A t \in failed :
            \E i \in 1..Len(ret.errors) : ret.errors[i] = ret.results[t].error
       /\ ret.success = (\A t \in DOMAIN ret.results : ret.results[t].success)

\* C6: when validateWorkflow rejects the list, run returns success = false
\* with the validation error as the only error and an empty result map, no
\* handler is invoked and no TASK_STARTED is emitted.
C6_RejectedRunIsEmpty ==
  Rejected =>
    /\ Returned
    /\ ret.success = FALSE
    /\ ret.errors = <<verdict[1].error>>
    /\ ret.results = <<>> /\ results = <<>>
    /\ \A t \in Ids : invoked[t] = 0 /\ events[t] = <<>> /\ tpc[t] = "idle"

\* a run that returned because its list was rejected
C6_Witness == Rejected /\ Returned /\ Len(workflow) > 1

\* C7: validateWorkflow accepts a list iff its ids are pairwise distinct,
\* every dependency is the id of a task of the list and no task reaches
\* itself along dependencies; a rejection carries 'Duplicate task IDs',
\* 'depends on non-existent task' or 'Circular dependency', each only when
\* the list has that defect.
C7_ValidatorVerdict ==
  Validated =>
    LET v == verdict[1]
        m == v.error.message
    IN /\ v.ok <=> StructurallyValid(workflow)
       /\ ~v.ok =>
            \/ /\ includes(m, <<"Duplicate", "task", "IDs">>)
               /\ HasDuplicateIds(workflow)
            \/ /\ includes(m, <<"depends", "on", "non-existent", "task">>)
               /\ HasMissingReference(workflow)
            \/ /\ includes(m, <<"Circular", "dependency">>)
               /\ HasCycle(workflow)

\* a list of three distinct tasks rejected for a cycle that is no
\* self-dependency
C7_Witness ==
  /\ Rejected
  /\ includes(verdict[1].error.message, <<"Circular", "dependency">>)
  /\ Len(workflow) = 3
  /\ \A i \in 1..3 : workflow[i].id \notin Range(workflow[i].dependencies)

\* C8 (as claimed): a list with a malformed retries or timeoutMs is rejected
\* before any task executes: single error, success = false, empty result
\* map, no handler invoked.
C8_MalformedRejectedUpFront ==
  (Returned /\ \E i \in 1..Len(workflow) : Malformed(workflow[i])) =>
    /\ ret.success = FALSE
    /\ Len(ret.errors) = 1
    /\ ret.results = <<>>
    /\ \A t \in Ids : invoked[t] = 0

\* C8 (amended): a malformed retries or timeoutMs is no validation error: a
\* list without duplicate, missing reference or cycle passes validation
\* whatever the fields of its tasks; the malformed task is found out only
\* when it is dispatched itself, its handler is never invoked, and by then
\* every dependency of it has executed and has its result in the map.
C8_MalformedFoundAtDispatch ==
  (Validated /\ StructurallyValid(workflow)) =>
    /\ Accepted
    /\ \A i \in 1..Len(workflow) : Malformed(workflow[i]) =>
         LET t == workflow[i].id
         IN /\ invoked[t] = 0
            /\ tpc[t] \in {"idle", "rejected"}
            /\ tpc[t] = "rejected" =>
                 /\ Dispatched(t) /\ events[t] = <<Ev("TASK_STARTED", 0)>>
                 /\ \A d \in DepsOf(t) : HasResult(d) /\ invoked[d] > 0

\* a malformed task found out in the second wave, after its dependency ran
C8_Witness ==
  /\ Accepted
  /\ \E i \in 1..Len(workflow) :
       /\ Malformed(workflow[i])
       /\ tpc[workflow[i].id] = "rejected"
       /\ startedAt[workflow[i].id] = 2
       /\ results # <<>>

\* C9 (as claimed): a task with invalid retry configuration in a list that
\* passes validateWorkflow ends as a failed TaskResult of its own and is
\* marked completed, every other task of the list still gets its result and
\* the configuration error is one entry of the error list.
C9_ConfigErrorIsLocal ==
  (Returned /\ Accepted) =>
    \A i \in 1..Len(workflow) : Malformed(workflow[i]) =>
      LET t == workflow[i].id
      IN /\ t \in DOMAIN ret.results /\ ~ret.results[t].success
         /\ t \in completed
         /\ \A u \in TaskIds : u \in DOMAIN ret.results
         /\ \E k \in 1..Len(ret.errors) : ret.errors[k] = ret.results[t].error

\* C10: the handler of a task with retries = n is never invoked more than
\* n + 1 times, and a successful result with retryCount = k comes from
\* exactly k + 1 invocations, the first k failed and the last successful,
\* with k <= n.
C10_RetryAccounting ==
  Accepted =>
    \A t \in TaskIds :
      /\ invoked[t] <= RetriesOf(t) + 1
      /\ (HasResult(t) /\ results[t].success) =>
           LET k == results[t].retryCount
           IN /\ invoked[t] = k + 1
              /\ k <= RetriesOf(t)
              /\ attempts[t] = [j \in 1..(k + 1) |-> j = k + 1]

\* a task that succeeded on its last allowed attempt, after retries
C10_Witness ==
  /\ Accepted
  /\ \E t \in TaskIds :
       /\ HasResult(t) /\ results[t].success
       /\ results[t].retryCount = RetriesOf(t) /\ RetriesOf(t) > 0

\* the message of error contains a retryable substring, built-in or of task t
Retryable(t, error) ==
  LET m == toLowerCase(error.message)
  IN \/ \E p \in { <<"timeout">>, <<"timed", "out">>, <<"network">>,
                     <<"connection">>, <<"temporary">>, <<"rate", "limit">>,
                     <<"server", "error">> } : includes(m, p)
     \/ \E i \in 1..Len(TaskOf(t).retryableErrors) :
           includes(m, toLowerCase(TaskOf(t).retryableErrors[i]))

\* the TASK_RETRY events of task t
RetryEvents(t) == SelectSeq(events[t], LAMBDA e : e.type = "TASK_RETRY")

\* C11 (as claimed): a task with retries = n that ended in failure with a
\* retryable error had its handler invoked exactly n + 1 times, every attempt
\* failed, its result has retryCount = n, and when run returns with that
\* result in the map it reports success = false with exactly one error for
\* the task: one entry of the error list per failed result of the map, the
\* task's error among them.
C11_ExhaustedRetries ==
  Accepted =>
    \A t \in TaskIds :
      (Failed(t) /\ Retryable(t, results[t].error)) =>
        /\ invoked[t] = RetriesOf(t) + 1
        /\ attempts[t] = [j \in 1..(RetriesOf(t) + 1) |-> FALSE]
        /\ results[t].retryCount = RetriesOf(t)
        /\ (Returned /\ t \in DOMAIN ret.results) =>
             /\ ret.success = FALSE
             /\ \E i \in 1..Len(ret.errors) : ret.errors[i] = results[t].error
             /\ Len(ret.errors) =
                  Cardinality({u \in DOMAIN ret.results : ~ret.results[u].success})

C13_FailureIsRetried ==
  Accepted =>
    \A t \in TaskIds :
      (Failed(t) /\ RetriesOf(t) > 0) =>
        /\ results[t].retryCount = RetriesOf(t)
        /\ invoked[t] = RetriesOf(t) + 1

\* C15: a task with retries = n none of whose handler calls settles within
\* timeoutMs is attempted exactly n + 1 times, emits n TASK_RETRY events and
\* ends failed with retryCount = n and a 'timed out' error.
C15_TimeoutIsRetried ==
  Accepted =>
    \A t \in TaskIds :
      (tpc[t] = "done" /\ abandoned[t] = invoked[t]) =>
        /\ invoked[t] = RetriesOf(t) + 1
        /\ Len(RetryEvents(t)) = RetriesOf(t)
        /\ Failed(t) /\ results[t].retryCount = RetriesOf(t)
        /\ includes(results[t].error.message, <<"timed", "out">>)

\* a task with retries that ended after every call of its handler timed out
C15_Witness ==
  /\ Accepted
  /\ \E t \in TaskIds :
       /\ tpc[t] = "done" /\ abandoned[t] = invoked[t]
       /\ RetriesOf(t) > 0 /\ invoked[t] > 1

\* C16: every run emits WORKFLOW_STARTED exactly once and before any other
\* event, and exactly one terminal workflow event, when it returns:
\* WORKFLOW_COMPLETED iff the returned success is true, WORKFLOW_FAILED
\* otherwise.
C16_WorkflowEvents ==
  /\ pc = "init" => (wfEvents = <<>> /\ \A t \in Ids : events[t] = <<>>)
  /\ pc = "executing" => wfEvents = <<"WORKFLOW_STARTED">>
  /\ Returned =>
       wfEvents = <<"WORKFLOW_STARTED",
                    IF ret.success THEN "WORKFLOW_COMPLETED" ELSE "WORKFLOW_FAILED">>

\* a run that returned success = false after its tasks executed, and one
\* task event at least was emitted
C16_Witness ==
  /\ Returned /\ Accepted /\ ~ret.success
  /\ \E t \in TaskIds : Len(events[t]) > 1

\* C17 (as claimed): the events of a dispatched task are one TASK_STARTED,
\* then TASK_RETRY events carrying retryCount 1, 2, ..., then, once
\* executeTask is over, exactly one terminal event: TASK_COMPLETED iff the
\* result is successful, TASK_FAILED otherwise; the TASK_RETRY events are as
\* many as the retryCount of the result.
C17_TaskEventOrder ==
  Accepted =>
    \A t \in TaskIds : Dispatched(t) =>
      LET e == events[t]
          k == Len(RetryEvents(t))
      IN /\ Len(e) >= 1 /\ e[1] = Ev("TASK_STARTED", 0)
         /\ Len(e) <= k + 2
         /\ \A j \in 1..k : e[j + 1] = Ev("TASK_RETRY", j)
         /\ Len(e) = k + 2 =>
              e[k + 2].type \in {"TASK_COMPLETED", "TASK_FAILED"}
         /\ HasResult(t) =>
              /\ Len(e) = k + 2
              /\ e[k + 2].type = IF results[t].success THEN "TASK_COMPLETED"
                                                       ELSE "TASK_FAILED"
              /\ k = results[t].retryCount
         /\ tpc[t] \in {"done", "rejected"} => Len(e) = k + 2

\* C18 (as claimed): every task of a validated list is dispatched at most
\* once, is never in progress once it is completed, has its TaskResult
\* written at most once, and when the run has returned and nothing is
\* pending any more it is completed with its result written exactly once.
C18_OncePerTask ==
  Accepted =>
    \A t \in TaskIds :
      /\ dispatches[t] <= 1 /\ writes[t] <= 1
      /\ ~(t \in completed /\ t \in inProgress)
      /\ t \in inProgress => dispatches[t] = 1 /\ writes[t] = 0
      /\ t \in completed => dispatches[t] = 1 /\ writes[t] = 1 /\ HasResult(t)
      /\ (Returned /\ Quiescent) => t \in completed /\ writes[t] = 1

\* C14: an attempt whose handler has not settled when timeoutMs elapses
\* fails with an error that names the task and contains 'timed out'; the
\* task then reaches its result and the run returns whether or not the
\* abandoned handler call ever settles.
C14_TimeoutEndsTheAttempt ==
  /\ [][\A t \in Ids : abandoned'[t] > abandoned[t] =>
          /\ includes(lastError'[t].message, <<"Task", t>>)
          /\ includes(lastError'[t].message, <<"timed", "out">>)
          /\ attempts'[t] = Append(attempts[t], FALSE)]_vars
  /\ \A t \in Ids : (abandoned[t] > 0) ~> (tpc[t] = "done" /\ Returned)

\* a run that returned, with a task that failed by timeout, while the
\* abandoned call of its handler has still not settled
C14_Witness ==
  /\ Returned /\ Accepted
  /\ \E t \in TaskIds :
       /\ Failed(t) /\ abandoned[t] > 0
       /\ includes(results[t].error.message, <<"timed", "out">>)

\* the TaskResult that the attempts of task t recorded by this call amount to
OwnResult(t) ==
  LET n == Len(attempts[t])
  IN IF attempts[t][n]
     THEN [id |-> t, success |-> TRUE, error |-> NoError, retryCount |-> n - 1]
     ELSE [id |-> t, success |-> FALSE, error |-> lastError[t],
           retryCount |-> n - 1]

\* C19: of two calls of run that overlap on the one service, each has a
\* tracker, a result map and an error list that hold what its own tasks did
\* and nothing else, also when both lists use the same ids: the tracker
\* holds the tasks this call dispatched, the result map the results of this
\* call's own attempts, the error list the errors of its own failed
\* results, and the call returns what these amount to.
C19_RunsAreIsolated ==
  /\ completed \cup inProgress \subseteq TaskIds
  /\ \A t \in completed \cup inProgress : dispatches[t] = 1 /\ Dispatched(t)
  /\ DOMAIN results = completed
  /\ \A t \in DOMAIN results :
       /\ tpc[t] = "done" /\ attempts[t] # <<>>
       /\ results[t] = OwnResult(t)
  /\ Len(errors) = Cardinality({t \in DOMAIN results : ~results[t].success})
  /\ \A t \in DOMAIN results :
       ~results[t].success => \E i \in 1..Len(errors) : errors[i] = lastError[t]
  /\ Returned =>
       /\ DOMAIN ret.results \subseteq TaskIds
       /\ \A t \in DOMAIN ret.results : ret.results[t] = OwnResult(t)
       /\ ret.success => (DOMAIN ret.results = TaskIds /\ ret.errors = <<>>)
       /\ (Accepted /\ \A i \in 1..Len(workflow) : ~Malformed(workflow[i])) =>
            ret = [success |-> Len(errors) = 0, results |-> results,
                   errors |-> errors]

\* two calls on lists with a common task id: one has returned, the other is
\* still executing, and their results for that id differ
C19_Witness ==
  /\ parked # <<>>
  /\ Returned /\ parked[1].pc = "executing"
  /\ \E t \in DOMAIN ret.results \cap DOMAIN parked[1].results :
       ret.results[t].success # parked[1].results[t].success

\* C20: calculateRetryDelay(k, config), k >= 1, returns
\* min(baseDelayMs * 2^(k-1), maxDelayMs) for the exponential strategy and
\* when no strategy is given, min(baseDelayMs * k, maxDelayMs) for linear,
\* and for jitter a value from the exponential value to 110% of it, capped
\* at maxDelayMs; the result never exceeds maxDelayMs, 30000 when not given.
C20_RetryDelay ==
  (out # <<>> /\ call # <<>> /\ call[1].fn = "calculateRetryDelay") =>
    LET k == call[1].retryCount
        c == call[1].config
        d == out[1]
        cap == IF c.maxDelayMs = <<>> THEN 30000 ELSE c.maxDelayMs[1]
        e == c.baseDelayMs * 2^(k - 1)
    IN /\ d <= cap
       /\ (c.strategy = <<>> \/ c.strategy = <<"exponential">>) =>
            d = IF e <= cap THEN e ELSE cap
       /\ c.strategy = <<"linear">> =>
            d = IF c.baseDelayMs * k <= cap THEN c.baseDelayMs * k ELSE cap
       /\ c.strategy = <<"jitter">> =>
            /\ d >= (IF e <= cap THEN e ELSE cap)
            /\ 10 * d <= 11 * e

\* a jitter delay strictly between the exponential value and 110% of it, of a
\* configuration without maxDelayMs
C20_Witness ==
  /\ out # <<>> /\ call # <<>> /\ call[1].fn = "calculateRetryDelay"
  /\ call[1].config.strategy = <<"jitter">>
  /\ call[1].config.maxDelayMs = <<>>
  /\ call[1].retryCount > 1
  /\ out[1] > call[1].config.baseDelayMs * 2^(call[1].retryCount - 1)
  /\ out[1] < 30000


-----------------------------------------------------------------------------
(* validateRetryConfig and shouldRetry alone *)

\* the calls of validateRetryConfig: each numeric field below, at and above
\* zero, maxDelayMs also absent
ConfigInputs ==
  {[fn |-> "validateRetryConfig",
    config |-> [maxRetries |-> r, timeoutMs |-> tm,
                exponentialBackoff |-> TRUE, baseDelayMs |-> b,
                strategy |-> <<>>, maxDelayMs |-> mx]] :
     r \in {-1, 0, 3}, tm \in {-1, 0, 1000}, b \in {-100, 0, 100},
     mx \in {<<>>, <<-1>>, <<0>>, <<5000>>}}

\* the calls of shouldRetry: messages in lower, upper and mixed case, with the
\* words of an entry adjacent, apart or missing; the second argument absent,
\* in lower case, in mixed case, and holding the empty string
RetryInputs ==
  {[fn |-> "shouldRetry", error |-> Err(m), retryableErrors |-> c] :
     m \in { <<"timeout", "error">>, <<"TIMEOUT", "ERROR">>,
             <<"Network", "Error">>, <<"permission", "denied">>,
             <<"request", "timed", "out">>, <<"timed", "then", "out">>,
             <<"Custom", "error", "occurred">>,
             <<"rate", "limit", "exceeded">>, <<"server", "busy">>, <<>> },
     c \in { <<>>, << <<"custom", "error">> >>,
             << <<"Custom", "Error">>, <<"denied">> >>, << <<>> >> }}

InitU ==
  /\ workflow = <<>>
  /\ InitRest
  /\ parked = <<>>
  /\ \E c \in ConfigInputs \cup RetryInputs : call = <<c>>
  /\ out = <<>>

\* the call of validateRetryConfig returns or throws
ApplyValidateRetryConfig ==
  /\ call # <<>> /\ call[1].fn = "validateRetryConfig"
  /\ out = <<>>
  /\ out' = <<validateRetryConfig(call[1].config)>>
  /\ UNCHANGED << workflow, pc, verdict, wave, waveNo, wfEvents, ret,
                  taskVars, parked, call >>

\* the call of shouldRetry returns
ApplyShouldRetry ==
  /\ call # <<>> /\ call[1].fn = "shouldRetry"
  /\ out = <<>>
  /\ out' = <<shouldRetry(call[1].error, call[1].retryableErrors)>>
  /\ UNCHANGED << workflow, pc, verdict, wave, waveNo, wfEvents, ret,
                  taskVars, parked, call >>

NextU == ApplyValidateRetryConfig \/ ApplyShouldRetry

SpecU == InitU /\ [][NextU]_vars

\* the call whose arguments `call` holds has returned
Called(fn) == call # <<>> /\ call[1].fn = fn /\ out # <<>>

\* C21: validateRetryConfig throws a configuration error exactly when
\* maxRetries < 0, timeoutMs <= 0, baseDelayMs <= 0 or a maxDelayMs that is
\* given is <= 0; it accepts every other configuration, and the configuration
\* it was handed is the same after the call as before
C21_RetryConfigVerdict ==
  [][(call # <<>> /\ call[1].fn = "validateRetryConfig" /\ out = <<>> /\ out' # <<>>) =>
       LET config == call[1].config
           bad == \/ config.maxRetries < 0
                  \/ config.timeoutMs <= 0
                  \/ config.baseDelayMs <= 0
                  \/ \E d \in Range(config.maxDelayMs) : d <= 0
       IN /\ out'[1].ok = ~bad
          /\ bad => out'[1].error # NoError
          /\ call' = call]_vars

\* a configuration whose only fault is maxDelayMs = 0 was refused
C21_Witness ==
  /\ Called("validateRetryConfig")
  /\ call[1].config.maxRetries >= 0
  /\ call[1].config.timeoutMs > 0
  /\ call[1].config.baseDelayMs > 0
  /\ call[1].config.maxDelayMs = <<0>>
  /\ ~out[1].ok

\* pat occurs in msg at some offset
OccursIn(pat, msg) ==
  \E i \in 0..Len(msg) :
     /\ i + Len(pat) <= Len(msg)
     /\ \A k \in 1..Len(pat) : msg[i + k] = pat[k]

\* C22: shouldRetry(error, custom) is true exactly when the lower-cased
\* message contains the lower-cased form of one of timeout, timed out,
\* network, connection, temporary, rate limit, server error or of an entry of
\* custom
C22_ShouldRetry ==
  Called("shouldRetry") =>
    out[1] = \E pat \in { <<"timeout">>, <<"timed", "out">>, <<"network">>,
                          <<"connection">>, <<"temporary">>,
                          <<"rate", "limit">>, <<"server", "error">> }
                        \cup Range(call[1].retryableErrors) :
                OccursIn(toLowerCase(pat), toLowerCase(call[1].error.message))

\* an upper-case message was matched by a built-in entry, no custom entry given
C22_Witness ==
  /\ Called("shouldRetry")
  /\ call[1].error.message = <<"TIMEOUT", "ERROR">>
  /\ call[1].retryableErrors = <<>>
  /\ out[1] = TRUE


-----------------------------------------------------------------------------
(* A TaskStateTracker alone *)

\* the lists handed to isReady and getPending
TrackerInputs ==
  {[i \in 1..Len(sh) |-> Task(sh[i][1], sh[i][2], DefaultConfig)] :
     sh \in Shapes}

\* new TaskStateTracker(), and a task list to ask it about
InitK ==
  /\ workflow \in TrackerInputs
  /\ InitRest
  /\ parked = <<>>
  /\ call = <<>>
  /\ out = <<>>

trackerRest == << workflow, pc, verdict, wave, waveNo, startedAt, results,
                  errors, tpc, retryCount, lastError, attempts, invoked,
                  sleep, events, wfEvents, ret, dispatches, writes,
                  abandoned, syncCalls, parked >>

\* `call` after one more call on the tracker: that call, and the one before
AfterCall(c) == <<c>> \o SubSeq(call, 1, IF call = <<>> THEN 0 ELSE 1)

\* a caller marks any id in progress
CallMarkInProgress(t) ==
  /\ markInProgress(t)
  /\ call' = AfterCall([fn |-> "markInProgress", taskId |-> t])
  /\ out' = <<>>
  /\ UNCHANGED << completed, trackerRest >>

\* a caller marks any id completed
CallMarkCompleted(t) ==
  /\ markCompleted(t)
  /\ call' = AfterCall([fn |-> "markCompleted", taskId |-> t])
  /\ out' = <<>>
  /\ UNCHANGED trackerRest

CallIsReady(task) ==
  /\ call' = AfterCall([fn |-> "isReady", task |-> task])
  /\ out' = <<isReady(task)>>
  /\ UNCHANGED << completed, inProgress, trackerRest >>

CallGetPending ==
  /\ call' = AfterCall([fn |-> "getPending", workflow |-> workflow])
  /\ out' = <<getPending(workflow)>>
  /\ UNCHANGED << completed, inProgress, trackerRest >>

NextK ==
  \/ \E t \in Ids : CallMarkInProgress(t)
  \/ \E t \in Ids : CallMarkCompleted(t)
  \/ \E i \in 1..Len(workflow) : CallIsReady(workflow[i])
  \/ CallGetPending

SpecK == InitK /\ [][NextK]_vars

\* C23 as stated: whatever calls were made, no id is in both sets
C23_SetsDisjoint == completed \cap inProgress = {}

\* C23: markCompleted of an id takes it out of inProgress, and an id gets
\* into both sets only by markInProgress of an id that is already completed
C23_DisjointUnlessRemarked ==
  [][\A t \in Ids :
       /\ (t \in completed' /\ t \notin completed) => t \notin inProgress'
       /\ (t \in completed' \cap inProgress' /\ t \notin completed \cap inProgress)
            => /\ t \in completed
               /\ call'[1] = [fn |-> "markInProgress", taskId |-> t]]_vars

\* an id marked in progress and then completed, beside another in progress
C23_Witness ==
  /\ call # <<>> /\ call[1] = [fn |-> "markCompleted", taskId |-> "a"]
  /\ completed = {"a"}
  /\ inProgress = {"b"}

\* the task is neither completed nor in progress and its dependencies are
\* all completed
ReadyNow(task) ==
  /\ task.id \notin completed \cup inProgress
  /\ Range(task.dependencies) \subseteq completed

\* the positions of the ready tasks of the list
ReadyAt(wf) == {i \in 1..Len(wf) : ReadyNow(wf[i])}

\* C24: isReady(task) is true exactly when the task's id is in neither set
\* and every dependency id is in completed; getPending(tasks) is the list of
\* the tasks for which that holds, in the order of tasks
C24_ReadyAndPending ==
  /\ (call # <<>> /\ call[1].fn = "isReady") => out[1] = ReadyNow(call[1].task)
  /\ (call # <<>> /\ call[1].fn = "getPending") =>
       LET wf == call[1].workflow
           I == ReadyAt(wf)
       IN /\ Len(out[1]) = Cardinality(I)
          /\ \A i \in I : out[1][1 + Cardinality({j \in I : j < i})] = wf[i]

\* getPending returned two tasks that became ready by the completion of
\* their dependency, out of a list of three
C24_Witness ==
  /\ call # <<>> /\ call[1].fn = "getPending"
  /\ Len(call[1].workflow) = 3
  /\ completed = {"a"}
  /\ Len(out[1]) = 2
  /\ \A k \in 1..2 : out[1][k].dependencies = <<"a">>


-----------------------------------------------------------------------------
(* A WorkflowValidatorService called again and again *)

\* the lists handed to the validator: two it accepts, one with a duplicate
\* id, one with a missing reference, two with a cycle
RepeatInputs ==
  {[i \in 1..Len(sh) |-> Task(sh[i][1], sh[i][2], DefaultConfig)] :
     sh \in { << <<"a", <<>>>> >>,
              << <<"a", <<>>>>, <<"b", <<"a">>>> >>,
              << <<"a", <<>>>>, <<"a", <<>>>> >>,
              << <<"a", <<Ghost>>>> >>,
              << <<"a", <<"b">>>>, <<"b", <<"a">>>> >>,
              << <<"a", <<"a">>>> >> }}

InitW ==
  /\ workflow = <<>>
  /\ InitRest
  /\ parked = <<>>
  /\ call = <<>>
  /\ out = <<>>

\* one more call of validateWorkflow on the same validator; `call` and `out`
\* keep the lists and the verdicts of all the calls, in order
CallValidateWorkflow(wf) ==
  /\ Len(call) < MaxCalls
  /\ call' = Append(call, [fn |-> "validateWorkflow", workflow |-> wf])
  /\ out' = Append(out, validateWorkflow(wf))
  /\ UNCHANGED << workflow, pc, verdict, wave, waveNo, wfEvents, ret,
                  taskVars, parked >>

NextW == \E wf \in RepeatInputs : CallValidateWorkflow(wf)

SpecW == InitW /\ [][NextW]_vars

-----------------------------------------------------------------------------
(* Waves *)

\* C26: a wave is dispatched only when no task is in progress and every task
\* dispatched before has completed and has its result; so a task of a later
\* wave is never started while a task of an earlier wave has not completed
C26_WaveAfterWave ==
  /\ [](\A t, u \in Ids :
          (0 < startedAt[u] /\ startedAt[u] < startedAt[t]) => u \in completed)
  /\ [][waveNo' > waveNo =>
          /\ inProgress = {}
          /\ \A u \in Ids : Dispatched(u) => u \in completed /\ HasResult(u)]_vars

\* a wave of two tasks has been followed by the wave of their dependent
C26_Witness ==
  /\ waveNo = 2
  /\ Cardinality({u \in Ids : startedAt[u] = 1}) = 2
  /\ \E t \in Ids : startedAt[t] = 2 /\ tpc[t] = "running"

\* C27: the step that dispatches a wave dispatches every task that is ready
\* at that moment (marked in progress, TASK_STARTED emitted), and after it no
\* task of the wave has completed or has a result; the first wave holds every
\* task without dependencies, and no handler has finished by then
C27_ReadyTasksDispatchedTogether ==
  [][waveNo' > waveNo =>
       /\ \A i \in 1..Len(workflow) :
            ReadyNow(workflow[i]) =>
              LET t == workflow[i].id
              IN /\ startedAt'[t] = waveNo'
                 /\ t \in inProgress'
                 /\ Len(events'[t]) = 1
                 /\ events'[t][1].type = "TASK_STARTED"
       /\ \A t \in Ids :
            startedAt'[t] = waveNo' =>
              /\ t \notin completed'
              /\ t \notin DOMAIN results'
              /\ attempts'[t] = <<>>
       /\ waveNo = 0 =>
            /\ \A i \in 1..Len(workflow) :
                 workflow[i].dependencies = <<>> => startedAt'[workflow[i].id] = 1
            /\ results' = <<>>
            /\ \A t \in Ids : attempts'[t] = <<>>]_vars

\* the first wave holds the two tasks without dependencies of a list of
\* three, both running, nothing finished
C27_Witness ==
  /\ waveNo = 1
  /\ Len(workflow) = 3
  /\ Cardinality(wave) = 2
  /\ \A t \in wave : tpc[t] = "running" /\ DepsOf(t) = {}
  /\ results = <<>>

\* C28 as stated: in the calls of a wave, every markInProgress comes before
\* every call of a handler
C28_AllMarkedBeforeAnyHandler ==
  \A i, j \in 1..Len(syncCalls) :
     (syncCalls[i].op = "handler" /\ syncCalls[j].op = "markInProgress") => j < i

\* C28: in the calls of a wave every task of the ready set is marked in
\* progress, and the handler of a task is called directly after the
\* markInProgress and the TASK_STARTED of that same task: a task is marked
\* before its own handler is called, not before the handlers of the tasks
\* that precede it in the list
C28_MarkedBeforeOwnHandler ==
  /\ pc = "executing" =>
       {syncCalls[j].id : j \in {k \in 1..Len(syncCalls) :
                                   syncCalls[k].op = "markInProgress"}} = wave
  /\ \A i \in 1..Len(syncCalls) :
       /\ syncCalls[i].op = "handler" =>
            /\ i > 2
            /\ syncCalls[i - 1] = [op |-> "TASK_STARTED", id |-> syncCalls[i].id]
            /\ syncCalls[i - 2] = [op |-> "markInProgress", id |-> syncCalls[i].id]
       /\ syncCalls[i].op = "markInProgress" =>
            /\ i < Len(syncCalls)
            /\ syncCalls[i + 1] = [op |-> "TASK_STARTED", id |-> syncCalls[i].id]

\* a wave of two tasks: the handler of the first was called before the
\* second was marked in progress
C28_Witness ==
  /\ pc = "executing"
  /\ Len(syncCalls) = 6
  /\ syncCalls[3].op = "handler"
  /\ syncCalls[4].op = "markInProgress"
  /\ syncCalls[6].op = "handler"


\* the message starts with "Deadlock detected"
IsDeadlockError(error) ==
  /\ Len(error.message) >= 2
  /\ SubSeq(error.message, 1, 2) = <<"Deadlock", "detected">>

\* C29: in the run of a list that passed validation, whenever the loop
\* computes the ready set (at the start and when a wave has finished) either
\* every task is completed or some task is ready, and the run never returns
\* the "Deadlock detected" error
C29_NoDeadlock ==
  Accepted =>
    /\ (pc = "executing" /\ \A t \in wave : tpc[t] = "done") =>
         \/ completed = TaskIds
         \/ ReadyAt(workflow) # {}
    /\ Returned =>
         \A k \in 1..Len(ret.errors) : ~IsDeadlockError(ret.errors[k])

\* a chain of three tasks ran wave by wave to its end though a task failed
C29_Witness ==
  /\ Accepted /\ Returned
  /\ waveNo = 3
  /\ completed = TaskIds
  /\ \E t \in TaskIds : Failed(t) /\ startedAt[t] = 1

\* C30: the step in which an abandoned handler call settles changes neither
\* the state of the attempt that is running or waiting in its place, nor the
\* results, the error list, the events, the tracker or what run returned
C30_AbandonedSettlementIsDiscarded ==
  [][(\E t \in Ids : abandoned'[t] < abandoned[t]) =>
       UNCHANGED << results, errors, events, wfEvents, ret, tpc, retryCount,
                    lastError, attempts, sleep, invoked, completed,
                    inProgress, pc, wave >>]_vars

\* the first call of the handler timed out and has settled since, and the
\* second attempt succeeded
C30_Witness ==
  \E t \in TaskIds :
     /\ tpc[t] = "done"
     /\ invoked[t] = 2
     /\ abandoned[t] = 0
     /\ includes(lastError[t].message, <<"timed", "out">>)
     /\ HasResult(t) /\ results[t].success


-----------------------------------------------------------------------------
(* The retry loop of one task under each backoff strategy *)

\* one task, without and with two retries, with each retryStrategy, and one
\* task with a timeout of zero
BackoffInputs ==
  {<< [Task("a", <<>>, [retries |-> r, timeoutMs |-> <<1000>>,
                        retryableErrors |-> <<>>])
         EXCEPT !.retryStrategy = st] >> :
     r \in {<<>>, <<2>>},
     st \in {<<>>, <<"exponential">>, <<"linear">>, <<"jitter">>}}
  \cup {<< Task("a", <<>>, [retries |-> <<>>, timeoutMs |-> <<0>>,
                            retryableErrors |-> <<>>]) >>}

InitB == workflow \in BackoffInputs /\ InitAlone

SpecB == InitB /\ [][Next]_vars

\* the delays the k-th failed attempt of t may be followed by, from the
\* task's own retryStrategy: 100 ms doubled k-1 times, 100 ms times k, or the
\* doubled value plus less than a tenth of it, never more than 30 s
BackoffOf(t, k) ==
  LET st == OrElse(TaskOf(t).retryStrategy, "exponential")
      e == 100 * 2^(k - 1)
      cap(d) == IF d > 30000 THEN 30000 ELSE d
  IN CASE st = "linear" -> {cap(100 * k)}
       [] st = "jitter" -> {cap(e + j) : j \in 0..((e - 1) \div 10)}
       [] OTHER -> {cap(e)}

\* C31 as stated: the suspension before the first retry is baseDelayMs
C31_FirstRetryWaitsBaseDelay ==
  \A t \in TaskIds :
     (tpc[t] = "delay" /\ Len(attempts[t]) = 1) =>
        sleep[t] = createRetryConfig(TaskOf(t)).baseDelayMs

\* C31: the attempts of a task never overlap; a further call of the handler
\* is made only when the suspension that followed the failed attempt before
\* it has elapsed; the suspension after the k-th failed attempt is the delay
\* of the task's strategy for k; a suspension begins only after a failed
\* attempt that is retryable and not the last one allowed, and none is left
\* when the task is done
C31_BackoffBetweenAttempts ==
  /\ [](\A t \in TaskIds :
          /\ invoked[t] - abandoned[t] <= Len(attempts[t]) + 1
          /\ invoked[t] <= Len(attempts[t]) + 1
          /\ tpc[t] = "delay" =>
               /\ invoked[t] = Len(attempts[t])
               /\ sleep[t] \in BackoffOf(t, Len(attempts[t]))
               /\ ~attempts[t][Len(attempts[t])]
               /\ Len(attempts[t]) <= RetriesOf(t)
               /\ Retryable(t, lastError[t])
          /\ tpc[t] = "done" => sleep[t] = 0)
  /\ [][\A t \in TaskIds :
          /\ (invoked'[t] > invoked[t] /\ invoked[t] > 0) =>
               tpc[t] = "delay" /\ sleep[t] > 0 /\ invoked'[t] = invoked[t] + 1
          /\ (Len(attempts'[t]) > Len(attempts[t])
                /\ attempts'[t][Len(attempts'[t])]) => tpc'[t] = "done"]_vars

\* a task with the jitter strategy waits more than twice baseDelayMs after
\* its second failed attempt
C31_Witness ==
  \E t \in TaskIds :
     /\ TaskOf(t).retryStrategy = <<"jitter">>
     /\ tpc[t] = "delay"
     /\ Len(attempts[t]) = 2
     /\ sleep[t] > 200


-----------------------------------------------------------------------------
(* The graph operations of WorkflowValidatorService alone *)

\* the task lists the graph operations are asked about: every list of up to
\* three tasks with at most one dependency each, on a task of the list, on
\* itself or on an id of no task, and lists with a task of two dependencies
GraphInputs ==
  LET tasks == {Task(id, deps, DefaultConfig) :
                  id \in Ids,
                  deps \in {<<>>} \cup {<<d>> : d \in Ids \cup {Ghost}}}
  IN SeqsUpTo(tasks, 3)
     \cup {[i \in 1..Len(sh) |-> Task(sh[i][1], sh[i][2], DefaultConfig)] :
             sh \in { << <<"a", <<>>>>, <<"b", <<>>>>, <<"c", <<"a", "b">>>> >>,
                      << <<"c", <<"a", "b">>>>, <<"b", <<"a">>>>, <<"a", <<>>>> >>,
                      << <<"a", <<"b", "c">>>>, <<"b", <<>>>>, <<"c", <<"a">>>> >>,
                      << <<"a", <<"b", "c">>>>, <<"b", <<"c">>>>, <<"c", <<>>>> >>,
                      << <<"a", <<"b", "z">>>>, <<"b", <<"y">>>> >>,
                      << <<"a", <<"y", "z">>>>, <<"b", <<"a">>>> >>,
                      << <<"a", <<"b">>>>, <<"b", <<"a", "z">>>>, <<"a", <<>>>> >> }}

InitG ==
  /\ workflow = <<>>
  /\ InitRest
  /\ parked = <<>>
  /\ \E wf \in GraphInputs :
        \/ call = <<[fn |-> "getExecutionOrder", workflow |-> wf]>>
        \/ call = <<[fn |-> "validateWorkflow", workflow |-> wf]>>
        \/ \E id \in {"a", "b"} :
              call = <<[fn |-> "getTransitiveDependencies", taskId |-> id,
                        workflow |-> wf]>>
  /\ out = <<>>

ApplyGetExecutionOrder ==
  /\ call # <<>> /\ call[1].fn = "getExecutionOrder"
  /\ out = <<>>
  /\ out' = <<getExecutionOrder(call[1].workflow)>>
  /\ UNCHANGED << workflow, pc, verdict, wave, waveNo, wfEvents, ret,
                  taskVars, parked, call >>

ApplyGetTransitiveDependencies ==
  /\ call # <<>> /\ call[1].fn = "getTransitiveDependencies"
  /\ out = <<>>
  /\ out' = <<getTransitiveDependencies(call[1].taskId, call[1].workflow)>>
  /\ UNCHANGED << workflow, pc, verdict, wave, waveNo, wfEvents, ret,
                  taskVars, parked, call >>

ApplyValidateWorkflow ==
  /\ call # <<>> /\ call[1].fn = "validateWorkflow"
  /\ out = <<>>
  /\ out' = <<validateWorkflow(call[1].workflow)>>
  /\ UNCHANGED << workflow, pc, verdict, wave, waveNo, wfEvents, ret,
                  taskVars, parked, call >>

NextG ==
  \/ ApplyGetExecutionOrder
  \/ ApplyGetTransitiveDependencies
  \/ ApplyValidateWorkflow

SpecG == InitG /\ [][NextG]_vars

\* the message starts with "Circular dependency"
IsCircularError(error) ==
  /\ Len(error.message) >= 2
  /\ SubSeq(error.message, 1, 2) = <<"Circular", "dependency">>

\* C32: for a list with unique ids, existing references and no cycle,
\* getExecutionOrder returns every id of the list exactly once, each after
\* all the dependencies of its task; for a list with unique ids and a cycle
\* it throws a "Circular dependency" error
C32_ExecutionOrder ==
  Called("getExecutionOrder") =>
    LET wf == call[1].workflow
        order == out[1].executionOrder
    IN /\ StructurallyValid(wf) =>
            /\ out[1].ok
            /\ Len(order) = Len(wf)
            /\ Range(order) = TaskIdsOf(wf)
            /\ \A i \in 1..Len(order) :
                 \A d \in DirectDeps(wf, order[i]) :
                    \E j \in 1..(i - 1) : order[j] = d
       /\ (~HasDuplicateIds(wf) /\ HasCycle(wf)) =>
            ~out[1].ok /\ IsCircularError(out[1].error)

\* the order of a list given dependents first, one task with two
\* dependencies
C32_Witness ==
  /\ Called("getExecutionOrder")
  /\ Len(call[1].workflow) = 3
  /\ call[1].workflow[1].dependencies = <<"a", "b">>
  /\ out[1].ok
  /\ out[1].executionOrder = <<"a", "b", "c">>

\* C33: getTransitiveDependencies(id, tasks) returns the ids reachable from
\* id by one or more dependency edges of a list with unique ids: none for a
\* task without dependencies, and on a cycle the ids of the cycle, id itself
\* among them
C33_TransitiveDependencies ==
  Called("getTransitiveDependencies") =>
    LET wf == call[1].workflow
        id == call[1].taskId
    IN ~HasDuplicateIds(wf) =>
         /\ out[1] = ReachIn(wf, DirectDeps(wf, id), Len(wf))
         /\ DirectDeps(wf, id) = {} => out[1] = {}

\* the closure of a task on a cycle of three holds the three ids
C33_Witness ==
  /\ Called("getTransitiveDependencies")
  /\ ~HasDuplicateIds(call[1].workflow)
  /\ OnCycle(call[1].workflow, call[1].taskId)
  /\ out[1] = Ids


\* the task id a circular dependency error names: the last word of its message
NamedTask(error) == error.message[Len(error.message)]

\* C34: when validateWorkflow rejects a list for a cycle, the task the
\* "Circular dependency detected involving task" error names lies on a
\* dependency cycle
C34_NamedTaskOnCycle ==
  (Called("validateWorkflow") /\ ~out[1].ok /\ IsCircularError(out[1].error)) =>
     OnCycle(call[1].workflow, NamedTask(out[1].error))


\* C35: a call of markCompleted(id) takes id out of inProgress, puts it into
\* completed and touches no other id; called for an id that is completed and
\* not in progress, as right after a first call, it changes neither set nor
\* the completed count
C35_MarkCompletedIdempotent ==
  [][\A t \in Ids :
       (Len(call') > 0 /\ call'[1] = [fn |-> "markCompleted", taskId |-> t]) =>
          /\ inProgress' = inProgress \ {t}
          /\ completed' = completed \cup {t}
          /\ (Len(call) > 0 /\ call[1] = call'[1]) =>
               /\ completed' = completed
               /\ inProgress' = inProgress
               /\ Cardinality(completed') = Cardinality(completed)]_vars

\* markCompleted was called twice in a row for an id that had been in
\* progress
C35_Witness ==
  /\ Len(call) = 2
  /\ call[1] = [fn |-> "markCompleted", taskId |-> "a"]
  /\ call[2] = call[1]
  /\ completed = {"a", "b"}
  /\ inProgress = {"c"}

-----------------------------------------------------------------------------
(* validateTask alone: one call on a task definition *)

DependencyInputs ==
  { Undefined, Str("not an array"), Str(""), Arr(<<>>),
    Arr(<<Str("task2")>>), Arr(<<Str("")>>), Arr(<<Str(" ")>>),
    Arr(<<Str("task1")>>), Arr(<<Num(1230)>>),
    Arr(<<Str("task1"), Str("")>>), Arr(<<Str(""), Str("task1")>>),
    Arr(<<Str("task2"), Str("task1")>>) }

TaskInputs ==
  [ id : {Str("task1"), Str(""), Str(" "), Undefined},
    handler : {Fn, Str("not a function")},
    retries : {Undefined, Num(-10), Num(0), Num(20), Num(15)},
    timeoutMs : {Undefined, Num(-10), Num(0), Num(10000), Num(1005)},
    dependencies : DependencyInputs ]

InitA ==
  /\ workflow = <<>>
  /\ InitRest
  /\ parked = <<>>
  /\ \E task \in TaskInputs : call = <<[fn |-> "validateTask", task |-> task]>>
  /\ out = <<>>

ApplyValidateTask ==
  /\ call # <<>> /\ call[1].fn = "validateTask"
  /\ out = <<>>
  /\ out' = <<validateTask(call[1].task)>>
  /\ UNCHANGED << workflow, pc, verdict, wave, waveNo, wfEvents, ret,
                  taskVars, parked, call >>

NextA == ApplyValidateTask

SpecA == InitA /\ [][NextA]_vars

\* a string with at least one character
NonEmpty(v) == v.type = "string" /\ v.s # ""

\* a string with at least one character that is not white space
NonBlank(v) == v.type = "string" /\ v.s \notin {"", " "}

HandlerCallable(task) == task.handler.type = "function"

RetriesValid(task) ==
  task.retries = Undefined \/ (isInteger(task.retries) /\ task.retries.n >= 0)

TimeoutValid(task) ==
  task.timeoutMs = Undefined
    \/ (isInteger(task.timeoutMs) /\ task.timeoutMs.n > 0)

\* the least index of a dependency that satisfies Bad, 0 when there is none
FirstDep(task, Bad(_)) ==
  LET deps == task.dependencies.items
      bad == {k \in 1..Len(deps) : Bad(deps[k])}
  IN IF bad = {} THEN 0 ELSE CHOOSE k \in bad : \A j \in bad : k <= j

\* C36 as stated: validateTask accepts a task iff its id is non-empty, its
\* handler is callable, retries (if present) is a non-negative integer,
\* timeoutMs (if present) is a positive integer and dependencies (if present)
\* is a list of non-empty string ids none of which is the task's own id;
\* otherwise the error is that of the first violated check in this order.
C36_AcceptsIffNonEmpty ==
  Called("validateTask") =>
    LET task == call[1].task
        deps == task.dependencies.items
        Empty(d) == ~NonEmpty(d)
        Self(d) == d = task.id
        isList == task.dependencies = Undefined
                    \/ task.dependencies.type = "array"
        expected ==
          IF ~NonEmpty(task.id) THEN EMPTY_TASK_ID
          ELSE IF ~HandlerCallable(task) THEN INVALID_HANDLER(Text(task.id))
          ELSE IF ~RetriesValid(task) THEN INVALID_RETRIES(Text(task.id))
          ELSE IF ~TimeoutValid(task) THEN INVALID_TIMEOUT(Text(task.id))
          ELSE IF ~isList THEN INVALID_DEPENDENCIES(Text(task.id))
          ELSE IF FirstDep(task, Empty) # 0
          THEN INVALID_DEPENDENCY_ID(Text(task.id),
                                     Text(deps[FirstDep(task, Empty)]))
          ELSE IF FirstDep(task, Self) # 0 THEN SELF_DEPENDENCY(Text(task.id))
          ELSE <<>>
    IN /\ out[1].ok <=> expected = <<>>
       /\ out[1].error = Err(expected)

\* C36 amended: validateTask accepts a task iff its id has a character that
\* is not white space, its handler is callable, retries (if present) is a
\* non-negative integer, timeoutMs (if present) is a positive integer and
\* dependencies, if it is a truthy value, is a list of strings that are not
\* blank and differ from the task's id. Otherwise the error is that of the
\* first violated check in this order, and within the list that of the first
\* offending dependency: invalid id if it is blank or no string, else self
\* dependency.
C36_AcceptsIffNonBlank ==
  Called("validateTask") =>
    LET task == call[1].task
        deps == task.dependencies.items
        Offending(d) == ~NonBlank(d) \/ d = task.id
        isList == ~Truthy(task.dependencies)
                    \/ task.dependencies.type = "array"
        k == FirstDep(task, Offending)
        expected ==
          IF ~NonBlank(task.id) THEN EMPTY_TASK_ID
          ELSE IF ~HandlerCallable(task) THEN INVALID_HANDLER(Text(task.id))
          ELSE IF ~RetriesValid(task) THEN INVALID_RETRIES(Text(task.id))
          ELSE IF ~TimeoutValid(task) THEN INVALID_TIMEOUT(Text(task.id))
          ELSE IF ~isList THEN INVALID_DEPENDENCIES(Text(task.id))
          ELSE IF k = 0 THEN <<>>
          ELSE IF ~NonBlank(deps[k])
          THEN INVALID_DEPENDENCY_ID(Text(task.id), Text(deps[k]))
          ELSE SELF_DEPENDENCY(Text(task.id))
    IN /\ out[1].ok <=> expected = <<>>
       /\ out[1].error = Err(expected)

\* a task whose only defect is a dependency list that names the task itself
\* before an empty id has been rejected for the self dependency
C36_Witness ==
  /\ Called("validateTask")
  /\ call[1].task.id = Str("task1")
  /\ call[1].task.dependencies = Arr(<<Str("task1"), Str("")>>)
  /\ ~out[1].ok
  /\ out[1].error = Err(SELF_DEPENDENCY("task1"))

-----------------------------------------------------------------------------
(* The two cycle detectors *)

\* C37: on a task list with unique ids and existing references,
\* validateWorkflow rejects the list for a cycle exactly when getExecutionOrder
\* of the same list throws a circular-dependency error
C37_CycleDetectorsAgree ==
  (/\ Called("validateWorkflow")
   /\ ~HasDuplicateIds(call[1].workflow)
   /\ ~HasMissingReference(call[1].workflow)) =>
      ((~out[1].ok /\ IsCircularError(out[1].error))
         <=> LET order == getExecutionOrder(call[1].workflow)
             IN ~order.ok /\ IsCircularError(order.error))

\* a list of three tasks with unique ids whose last two depend on each other
\* has been rejected for the cycle, and getExecutionOrder throws on it too
C37_Witness ==
  /\ Called("validateWorkflow")
  /\ Len(call[1].workflow) = 3
  /\ ~HasDuplicateIds(call[1].workflow)
  /\ ~HasMissingReference(call[1].workflow)
  /\ ~OnCycle(call[1].workflow, call[1].workflow[1].id)
  /\ ~out[1].ok /\ IsCircularError(out[1].error)
  /\ ~getExecutionOrder(call[1].workflow).ok

-----------------------------------------------------------------------------
(* Precedence of the defects validateWorkflow reports *)

\* the dependencies of task i that name no task of the list, by index
MissingAt(wf, i) ==
  {k \in 1..Len(wf[i].dependencies) :
     wf[i].dependencies[k] \notin TaskIdsOf(wf)}

\* C39: validateWorkflow reports one defect of a list that has several: a
\* duplicate id before a missing reference, a missing reference before a
\* cycle, and for a missing reference the first task in list order that has
\* one together with its first missing dependency
C39_DefectPrecedence ==
  Called("validateWorkflow") =>
    LET wf == call[1].workflow
        offenders == {i \in 1..Len(wf) : MissingAt(wf, i) # {}}
        i == CHOOSE x \in offenders : \A y \in offenders : x <= y
        k == CHOOSE x \in MissingAt(wf, i) : \A y \in MissingAt(wf, i) : x <= y
    IN /\ HasDuplicateIds(wf) =>
            ~out[1].ok /\ out[1].error = Err(DUPLICATE_TASK_IDS)
       /\ (~HasDuplicateIds(wf) /\ offenders # {}) =>
            /\ ~out[1].ok
            /\ out[1].error =
                 Err(NON_EXISTENT_DEPENDENCY(wf[i].id, wf[i].dependencies[k]))
       /\ (~HasDuplicateIds(wf) /\ offenders = {} /\ HasCycle(wf)) =>
            ~out[1].ok /\ IsCircularError(out[1].error)

\* a list with a duplicate id, a missing reference and a cycle has been
\* rejected for the duplicate
C39_Witness ==
  /\ Called("validateWorkflow")
  /\ HasDuplicateIds(call[1].workflow)
  /\ HasMissingReference(call[1].workflow)
  /\ HasCycle(call[1].workflow)
  /\ out[1].error = Err(DUPLICATE_TASK_IDS)

-----------------------------------------------------------------------------
(* After run has returned *)

\* C38: once run has returned its WorkflowResult and emitted its terminal
\* workflow event no task is in progress, and from then on the result map and
\* the error list it returned are not modified and no task emits an event
C38_NothingAfterReturn ==
  /\ [](Returned => inProgress = {})
  /\ [][Returned => /\ results' = results
                    /\ errors' = errors
                    /\ events' = events]_vars

-----------------------------------------------------------------------------
(* The empty task list *)

\* C40: run on an empty task list returns success = true with an empty result
\* map and an empty error list, having emitted WORKFLOW_STARTED and then
\* WORKFLOW_COMPLETED and no task event, and reports no deadlock
C40_EmptyRun ==
  (Returned /\ Len(workflow) = 0) =>
     /\ ret.success
     /\ DOMAIN ret.results = {}
     /\ ret.errors = <<>>
     /\ wfEvents = <<"WORKFLOW_STARTED", "WORKFLOW_COMPLETED">>
     /\ \A t \in Ids : events[t] = <<>>
     /\ verdict = <<[ok |-> TRUE, error |-> NoError]>>

\* the run of the empty list has returned
C40_Witness ==
  /\ Returned
  /\ workflow = <<>>
  /\ wfEvents[Len(wfEvents)] = "WORKFLOW_COMPLETED"
=============================================================================
